---------------------------- MODULE Spec2Model ----------------------------
(***************************************************************************)
(* Ceagle web client (web/src): the upload pipeline of App.                *)
(*                                                                         *)
(* handleUploadFiles is an async function running on the browser's single  *)
(* thread: the code between two awaits runs to completion, so every action *)
(* below is one such run-to-completion step (an event handler together     *)
(* with the promise continuations it triggers).                            *)
(*                                                                         *)
(* Byte counts are in an arbitrary unit (the scenario sizes 100, 200, 300  *)
(* are 1, 2, 3).  Strings that only label an outcome (alert texts, error   *)
(* messages) are written in ASCII.                                         *)
(***************************************************************************)
EXTENDS Integers, Sequences, FiniteSets, TLC

(***************************************************************************)
(* Bounds of the model.                                                    *)
(***************************************************************************)
MaxFiles == 4
MaxSize == 3
MaxDupFiles == 2
MaxExisting == 3
MaxWide == 6
MaxPending == 2
MaxSwatches == 3
MaxFormats == 3
FormOverhead == 1

NoFolder == "null"
TargetFolder == "folder-1"

Min(a, b) == IF a < b THEN a ELSE b

(***************************************************************************)
(* String.prototype.toLowerCase on the file names of the model.            *)
(***************************************************************************)
toLowerCase(s) ==
    CASE s = "A.JPG" -> "a.jpg"
      [] s = "B.PNG" -> "b.png"
      [] s = "C.GIF" -> "c.gif"
      [] s = "PNG" -> "png"
      [] s = "JPG" -> "jpg"
      [] s = "Png" -> "png"
      [] s = "GIF" -> "gif"
      [] OTHER -> s

(***************************************************************************)
(* A relative path is its sequence of "/"-separated segments: <<>> is the  *)
(* empty string, and the path contains "/" iff it has several segments.    *)
(***************************************************************************)
includesSlash(path) == Len(path) > 1

(***************************************************************************)
(* Inputs.  A batch is the files argument of handleUploadFiles; a folder   *)
(* listing is what GET /assets?folder_id= answers for the active folder.   *)
(***************************************************************************)
CandidateNames == <<"a.jpg", "b.png", "A.JPG">>
ExistingNames == <<"A.JPG", "a.jpg", "", "b.png">>

NameAt(i) == CandidateNames[((i - 1) % Len(CandidateNames)) + 1]

SizeAt(profile, i) == IF profile = "ascending" THEN Min(i, MaxSize) ELSE 0

Batch(n, profile, off, nestedAt) ==
    [i \in 1..n |->
        [name |-> NameAt(i + off),
         size |-> SizeAt(profile, i),
         relativePath |-> IF i = nestedAt THEN <<"album", NameAt(i + off)>>
                          ELSE <<>>]]

Listing(k) ==
    [i \in 1..k |->
        [id |-> i, filename |-> ExistingNames[((i - 1) % Len(ExistingNames)) + 1]]]

\* Batches of a dropped directory (they skip the duplicate check) ...
LargeBatches ==
    {Batch(n, p, 0, 1) : n \in 0..MaxFiles, p \in {"ascending", "empty"}}

\* ... and short batches, flat or not, for the duplicate check.
SmallBatches ==
    {Batch(n, "ascending", off, nestedAt) :
        n \in 1..MaxDupFiles, off \in 0..2, nestedAt \in {0, 1}}

BatchesFor(listing) ==
    IF Len(listing) = 0 THEN LargeBatches \cup SmallBatches ELSE SmallBatches

\* Flat batches of many names, and listings holding many of them, for the
\* prompt of the duplicate check.
WideNames ==
    <<"a.jpg", "B.PNG", "c.gif", "d.bmp", "A.JPG", "e.svg", "f.tif", "g.raw", "h.ico">>

WideExisting ==
    <<"b.png", "A.JPG", "", "C.GIF", "d.bmp", "e.svg", "f.tif", "g.raw", "x.txt">>

WideBatch(n, off) ==
    [i \in 1..n |->
        [name |-> WideNames[((i + off - 1) % Len(WideNames)) + 1],
         size |-> 0,
         relativePath |-> <<>>]]

WideListing(k) ==
    [i \in 1..k |->
        [id |-> i, filename |-> WideExisting[((i - 1) % Len(WideExisting)) + 1]]]

WideBatches == {WideBatch(n, off) : n \in 1..(MaxWide + 1), off \in 0..3}

concurrency == 3

VARIABLES
    activeFolder,    \* App state: the selected folder (NoFolder when none)
    form,            \* App state form (format and color; "" is <<>>)
    second,          \* the locals and the position of a call of
                     \* handleUploadFiles made while another is under way
    folder,          \* backend: the records listed for the active folder
    pc,              \* position of handleUploadFiles
    files,           \* the files argument
    dupNames,        \* local dupNames
    deleteIds,       \* local deleteIds, in insertion order
    delCursor,       \* position of the for-of loop over deleteIds
    duplicateModal,  \* App state duplicateModal
    duplicateResolver, \* the ref duplicateResolver: the call whose promise
                       \* its resolve function settles ("null" when none)
    replace,         \* local replace: the answer to the prompt ("unset" before it)
    alerts,          \* every showAlert call so far
    deleteLog,       \* every DELETE /assets/<id> issued so far, with its result
    uploading,       \* App state uploading
    uploadErrors,    \* App state uploadErrors
    uploadProgress,  \* App state uploadProgress
    totalBytes,      \* local totalBytes
    uploadedBytes,   \* local uploadedBytes
    cursor,          \* local cursor (number of files claimed)
    holding,         \* per worker: the file it awaits, 0 once it has returned
    status,          \* per file: unclaimed, inflight, ok, failed
    lastLoaded,      \* per file: lastLoaded of its uploadOne call (0 outside it)
    attempts,        \* per file: how many times uploadOne was called for it
    library,         \* backend: the assets of the library
    assets,          \* App state assets
    filters,         \* App state filters (format and color; "" is <<>>)
    selectedFormats, \* App state selectedFormats
    selectedColors,  \* App state selectedColors
    formatOptions,   \* App state formatOptions
    colorGroups,     \* App state colorGroups
    assetRequests,   \* the loadAssets() calls awaiting fetchAssets
    facetRequests,   \* the loadFormats / loadColors calls awaiting fetchAssets
    committedCurrent, \* per facet: its options were set by a computation
                      \* started for the filters and assets of that moment
    facetOutcome,    \* how the step just taken ended a loadFormats / loadColors
                     \* call: "loaded", "failed" (caught), or "none"
    selectionMode,   \* App state selectionMode
    selectedIds,     \* App state selectedIds, in insertion order
    confirmModal,    \* App state confirmModal (count: the number in its message)
    deleteProgress,  \* App state deleteProgress
    bpc,             \* where handleBatchDelete stands
    ids,             \* handleBatchDelete: Array.from(selectedIds)
    delDone,         \* handleBatchDelete: the loop turns completed
    delPending,      \* the ids whose deleteAsset call awaits its answer
    deleteOutcome,   \* how the step just taken ended a deleteAsset call of
                     \* handleBatchDelete: "ok", "failed", or "none"
    dataTransfer,    \* the payload of a drop: its files and its items
    tpc,             \* where getFilesFromDataTransfer stands
    agenda,          \* the entries still to traverse, the awaited one first
    readerPos,       \* readAllEntries: the readEntries calls answered so far
    readerEntries,   \* readAllEntries: entries
    dropped          \* getFilesFromDataTransfer: files

dupVars == <<dupNames, deleteIds, delCursor, duplicateModal, duplicateResolver,
             replace, deleteLog>>
runVars == <<uploading, uploadErrors, uploadProgress, totalBytes, uploadedBytes,
             cursor, holding, status, lastLoaded, attempts>>
facetVars == <<library, assets, filters, selectedFormats, selectedColors,
               formatOptions, colorGroups, assetRequests, facetRequests,
               committedCurrent, facetOutcome>>
batchVars == <<selectionMode, selectedIds, confirmModal, deleteProgress, bpc,
               ids, delDone, delPending, deleteOutcome>>
travVars == <<dataTransfer, tpc, agenda, readerPos, readerEntries, dropped>>
panelVars == <<activeFolder, form>>
envVars == <<panelVars, second, folder, facetVars, batchVars, travVars>>
uploadVars == <<panelVars, second, folder, pc, files, alerts, dupVars, runVars>>
vars == <<envVars, pc, files, alerts, dupVars, runVars>>

\* A call of handleUploadFiles that has not been made.
idleCall ==
    [pc |-> "idle", files |-> <<>>, deleteIds |-> <<>>, uploadedBytes |-> 0,
     lastLoaded |-> <<>>, cursor |-> 0, holding |-> [w \in 1..concurrency |-> 0],
     status |-> <<>>, attempts |-> <<>>]

idleProgress == [active |-> FALSE, percent |-> 0, current |-> "", index |-> 0, total |-> 0]

noFilters == [format |-> <<>>, color |-> <<>>]

\* emptyForm, of which the model keeps format: "" and color: "".
emptyForm == [format |-> <<>>, color |-> <<>>]

\* The App after its first render: assets = [], filters = {}, the effects
\* have run once, loadAssets() awaits its answer and both facets were
\* computed from the empty asset list.
InitFacetsOn(libraries) ==
    /\ library \in libraries
    /\ assets = <<>>
    /\ filters = noFilters
    /\ selectedFormats = <<>>
    /\ selectedColors = <<>>
    /\ formatOptions = <<>>
    /\ colorGroups = <<>>
    /\ assetRequests = {[params |-> noFilters, by |-> "effect"]}
    /\ facetRequests = {}
    /\ committedCurrent = [format |-> TRUE, color |-> TRUE]
    /\ facetOutcome = "none"

InitUploadOn(folders, listings) ==
    /\ activeFolder \in folders
    /\ form = emptyForm
    /\ second = idleCall
    /\ folder \in listings
    /\ pc = "idle"
    /\ files = <<>>
    /\ dupNames = <<>>
    /\ deleteIds = <<>>
    /\ delCursor = 0
    /\ duplicateModal = [open |-> FALSE, count |-> 0, sample |-> <<>>]
    /\ duplicateResolver = "null"
    /\ replace = "unset"
    /\ alerts = <<>>
    /\ deleteLog = <<>>
    /\ uploading = FALSE
    /\ uploadErrors = <<>>
    /\ uploadProgress = idleProgress
    /\ totalBytes = 0
    /\ uploadedBytes = 0
    /\ cursor = 0
    /\ holding = [w \in 1..concurrency |-> 0]
    /\ status = <<>>
    /\ lastLoaded = <<>>
    /\ attempts = <<>>

\* Nothing is selected and no batch delete has been asked for.
InitBatch ==
    /\ selectionMode = FALSE
    /\ selectedIds = <<>>
    /\ confirmModal = [open |-> FALSE, count |-> 0]
    /\ deleteProgress = idleProgress
    /\ bpc = "idle"
    /\ ids = <<>>
    /\ delDone = 0
    /\ delPending = {}
    /\ deleteOutcome = "none"

noTransfer == [files |-> <<>>, items |-> <<>>]

\* A drop with the payload of one of transfers has not been handled yet.
InitTraverseOn(transfers) ==
    /\ dataTransfer \in transfers
    /\ tpc = "idle"
    /\ agenda = <<>>
    /\ readerPos = 0
    /\ readerEntries = <<>>
    /\ dropped = <<>>

InitOn(folders, listings, libraries) ==
    /\ InitUploadOn(folders, listings)
    /\ InitFacetsOn(libraries)
    /\ InitBatch
    /\ InitTraverseOn({noTransfer})

Init == InitOn({NoFolder, TargetFolder}, {Listing(k) : k \in 0..MaxExisting}, {<<>>})

\* A folder is selected and holds many records.
InitPrompt ==
    InitOn({TargetFolder}, {WideListing(k) : k \in 0..(MaxWide + 3)}, {<<>>})

(***************************************************************************)
(* Transport.  xhr.send(form) sends the multipart encoding of the form, so *)
(* the progress events of xhr.upload count the bytes of the request body:  *)
(* the file's bytes plus the framing of the form (boundaries, part headers,*)
(* the folder_id / tags / relative_path fields).                           *)
(***************************************************************************)
BodyLength(file) == file.size + FormOverhead

\* ProgressEvent.lengthComputable of an upload event: the body length is not 0.
lengthComputable(file) == BodyLength(file) # 0

RECURSIVE SumSizes(_)
SumSizes(fs) == IF Len(fs) = 0 THEN 0 ELSE Head(fs).size + SumSizes(Tail(fs))

\* files.reduce((sum, file) => sum + (file.size || 0), 0) || 1
TotalBytes(fs) == IF SumSizes(fs) = 0 THEN 1 ELSE SumSizes(fs)

\* Math.round(n / d) for n >= 0, d > 0: halves round up.
Round(n, d) == (2 * n + d) \div (2 * d)

\* The percentage without Math.min(100, ...).
PercentUnclamped(uploaded, total) == Round(uploaded * 100, total)

\* Math.min(100, Math.round((uploadedBytes / totalBytes) * 100))
Percent(uploaded, total) == Min(100, Round(uploaded * 100, total))

(***************************************************************************)
(* The scheduler.  r is the part of the state the workers share: cursor,   *)
(* holding, status, attempts, uploadProgress.                              *)
(***************************************************************************)
\* The increment placed after the await: the workers read the same cursor.
AdvanceCursorLate(c) == c

\* cursor += 1
AdvanceCursor(c) == c + 1

\* The synchronous head of uploadOne(file, idx): the progress label is set and
\* the request is sent; the worker then waits for the transfer to settle.
uploadOneStart(w, r, fs) ==
    LET i == r.cursor + 1 IN
    [r EXCEPT !.cursor = AdvanceCursor(r.cursor),
              !.holding[w] = i,
              !.status[i] = "inflight",
              !.attempts[i] = @ + 1,
              !.uploadProgress = [@ EXCEPT !.current = fs[i].name, !.index = i]]

\* A worker that does not wait for uploadOne: it claims every remaining file.
RECURSIVE WorkerLoopNoAwait(_, _, _)
WorkerLoopNoAwait(w, r, fs) ==
    IF r.cursor < Len(fs)
    THEN WorkerLoopNoAwait(w, uploadOneStart(w, r, fs), fs)
    ELSE [r EXCEPT !.holding[w] = 0]

\* One turn of  while (cursor < files.length) { ...; await uploadOne(...) }  up
\* to its await, or the worker's return when the cursor is exhausted.
WorkerLoop(w, r, fs) ==
    IF r.cursor < Len(fs)
    THEN uploadOneStart(w, r, fs)
    ELSE [r EXCEPT !.holding[w] = 0]

\* Array.from({ length: concurrency }).map(async () => ...): the workers start
\* one after the other, each running to its first await.
RECURSIVE SpawnWorkers(_, _, _)
SpawnWorkers(w, r, fs) ==
    IF w > concurrency THEN r
    ELSE SpawnWorkers(w + 1, WorkerLoop(w, r, fs), fs)

\* The worker that awaited a settled transfer, when uploadOne lets a
\* rejection through: the worker ends with it.
ResumeWorkerUncaught(w, r, fs, outcome) ==
    IF outcome = "failed" THEN [r EXCEPT !.holding[w] = 0]
    ELSE WorkerLoop(w, r, fs)

\* uploadOne catches the rejection and returns normally, so the worker takes
\* its next turn whatever the outcome.
ResumeWorker(w, r, fs, outcome) == WorkerLoop(w, r, fs)

\* Promise.race: the run goes on as soon as one worker has returned.
AnyReturned(r) == \E w \in 1..concurrency : r.holding[w] = 0

\* await Promise.all(workers) resolves once every worker has returned.
AllReturned(r) == \A w \in 1..concurrency : r.holding[w] = 0

\* The refresh left out when a file of the batch has failed.
AfterWorkersUnlessFailed(r, running) ==
    IF AllReturned(r)
    THEN IF \E i \in DOMAIN r.status : r.status[i] = "failed"
         THEN "rejected" ELSE "refreshMeta"
    ELSE running

\* await Promise.all(workers); await loadMeta(): once every worker has
\* returned loadMeta() is called, whatever the outcomes of the files.
AfterWorkers(r, running) == IF AllReturned(r) THEN "refreshMeta" ELSE running

\* From setUploading(true) to  await Promise.all(workers).
StartRun(fs) ==
    LET r0 == [cursor |-> 0,
               holding |-> [w \in 1..concurrency |-> 0],
               status |-> [i \in 1..Len(fs) |-> "unclaimed"],
               attempts |-> [i \in 1..Len(fs) |-> 0],
               uploadProgress |-> [active |-> TRUE, percent |-> 0,
                                   current |-> fs[1].name, index |-> 0,
                                   total |-> Len(fs)]]
        r == SpawnWorkers(1, r0, fs)
    IN  /\ uploading' = TRUE
        /\ uploadErrors' = <<>>
        /\ totalBytes' = TotalBytes(fs)
        /\ uploadedBytes' = 0
        /\ lastLoaded' = [i \in 1..Len(fs) |-> 0]
        /\ cursor' = r.cursor
        /\ holding' = r.holding
        /\ status' = r.status
        /\ attempts' = r.attempts
        /\ uploadProgress' = r.uploadProgress
        /\ pc' = AfterWorkers(r, "run")

\* A failed file's reported bytes taken back out of the total.
SettledBytesRolledBack(f, outcome) ==
    IF outcome = "failed" THEN uploadedBytes - lastLoaded[f] ELSE uploadedBytes

\* A failed file made to count for its declared size.
SettledBytesDeclared(f, outcome) ==
    IF outcome = "failed" /\ files[f].size > lastLoaded[f]
    THEN uploadedBytes + (files[f].size - lastLoaded[f])
    ELSE uploadedBytes

\* uploadedBytes after a transfer has settled: neither onload / onerror nor
\* the catch of uploadOne touches it.
SettledBytes(f, outcome) == uploadedBytes

\* The transfer of file f settles: uploadOne returns (its catch swallows a
\* rejection), and the worker that awaited it takes its next turn; when the
\* last worker returns, Promise.all resolves and loadMeta() is called.
Settle(f, outcome, errs) ==
    LET r0 == [cursor |-> cursor,
               holding |-> holding,
               status |-> [status EXCEPT ![f] = outcome],
               attempts |-> attempts,
               uploadProgress |-> uploadProgress]
        ws == {w \in 1..concurrency : holding[w] = f}
        r == IF ws = {} THEN r0
             ELSE ResumeWorker(CHOOSE w \in ws : TRUE, r0, files, outcome)
    IN  /\ status[f] = "inflight"
        /\ uploadErrors' = uploadErrors \o errs
        /\ cursor' = r.cursor
        /\ holding' = r.holding
        /\ status' = r.status
        /\ attempts' = r.attempts
        /\ uploadProgress' = r.uploadProgress
        /\ pc' = IF pc = "run" THEN AfterWorkers(r, pc) ELSE pc
        /\ lastLoaded' = [lastLoaded EXCEPT ![f] = 0]
        /\ uploadedBytes' = SettledBytes(f, outcome)
        /\ UNCHANGED <<uploading, totalBytes>>
        /\ UNCHANGED <<envVars, files, alerts, dupVars>>


(***************************************************************************)
(* The duplicate check of handleUploadFiles.                               *)
(***************************************************************************)
\* files.every in the place of files.some.
hasNestedPathEvery(fs) ==
    \A i \in 1..Len(fs) :
        fs[i].relativePath # <<>> /\ includesSlash(fs[i].relativePath)

\* files.some((file) => file.relativePath && file.relativePath.includes("/"))
hasNestedPath(fs) ==
    \E i \in 1..Len(fs) :
        fs[i].relativePath # <<>> /\ includesSlash(fs[i].relativePath)

\* existingByName.has(name): records with an empty filename are not indexed.
existingHas(existing, name) ==
    \E i \in 1..Len(existing) :
        existing[i].filename # "" /\ toLowerCase(existing[i].filename) = name

\* An index that keeps one record per name.
existingGetFirst(existing, name) ==
    SubSeq(SelectSeq(existing,
                     LAMBDA a : a.filename # "" /\ toLowerCase(a.filename) = name),
           1, 1)

\* existingByName.get(name): the records of that name, in listing order.
existingGet(existing, name) ==
    SelectSeq(existing,
              LAMBDA a : a.filename # "" /\ toLowerCase(a.filename) = name)

\* Array.from(new Set(seq)): the first occurrence of each element, in order.
RECURSIVE Distinct(_)
Distinct(seq) ==
    IF Len(seq) = 0 THEN <<>>
    ELSE LET init == Distinct(SubSeq(seq, 1, Len(seq) - 1))
             last == seq[Len(seq)]
         IN  IF \E i \in 1..Len(init) : init[i] = last THEN init
             ELSE Append(init, last)

DupNames(fs, existing) ==
    Distinct(SelectSeq([i \in 1..Len(fs) |-> toLowerCase(fs[i].name)],
                       LAMBDA name : name # "" /\ existingHas(existing, name)))

\* dupNames.slice(0, 5), the names that join(", ") puts in the sample.
SampleUntruncated(names) == names

Sample(names) == SubSeq(names, 1, Min(5, Len(names)))

RECURSIVE CollidingIds(_, _)
CollidingIds(names, existing) ==
    IF Len(names) = 0 THEN <<>>
    ELSE [i \in 1..Len(existingGet(existing, Head(names))) |->
              existingGet(existing, Head(names))[i].id]
         \o CollidingIds(Tail(names), existing)

\* The Set deleteIds, in insertion order.
DeleteIds(names, existing) == Distinct(CollidingIds(names, existing))

\* deleteAsset(id): the request, and the log once its answer has come.
DeleteRequest(id) == [id |-> id, result |-> "pending"]

Answered(log, result) == [log EXCEPT ![Len(log)].result = result]

Alert(message, title) == [title |-> title, message |-> message]

\* handleUploadFiles(files), up to its first await.
UploadFiles(fs) ==
    /\ files' = fs
    /\ IF Len(fs) = 0
       THEN pc' = "done" /\ UNCHANGED <<alerts, runVars>>
       ELSE IF activeFolder = NoFolder
       THEN /\ alerts' = Append(alerts, Alert("select a folder first", "notice"))
            /\ pc' = "done"
            /\ UNCHANGED runVars
       ELSE IF hasNestedPath(fs)
       THEN StartRun(fs) /\ UNCHANGED alerts
       ELSE pc' = "query" /\ UNCHANGED <<alerts, runVars>>
    /\ UNCHANGED <<envVars, dupVars>>

\* handleFileInput: the files of the input element go to handleUploadFiles.
handleUploadFilesOn(batches) ==
    /\ pc = "idle"
    /\ \E fs \in batches : UploadFiles(fs)

handleUploadFiles == handleUploadFilesOn(BatchesFor(folder))

\* The guard of handleDropUpload.
DropAlwaysAccepted(af) == FALSE

DropRefused(af) == af = NoFolder

\* handleDropUpload(event), up to its await of getFilesFromDataTransfer.
handleDropUpload ==
    /\ pc = "idle"
    /\ IF DropRefused(activeFolder)
       THEN /\ alerts' = Append(alerts, Alert("select a folder first", "notice"))
            /\ pc' = "done"
       ELSE /\ pc' = "traversing"
            /\ UNCHANGED alerts
    /\ UNCHANGED <<envVars, files, dupVars, runVars>>

\* getFilesFromDataTransfer resolves: handleUploadFiles(files) is called.
DropTraversed ==
    /\ pc = "traversing"
    /\ \E fs \in BatchesFor(folder) : UploadFiles(fs)

\* getFilesFromDataTransfer rejects (entry.file reports an error): the
\* handler ends there.
DropTraversalFail ==
    /\ pc = "traversing"
    /\ pc' = "rejected"
    /\ UNCHANGED <<envVars, files, alerts, dupVars, runVars>>

\* fetchAssets({ folder_id }) answers with the listing.
QueryOk ==
    /\ pc = "query"
    /\ dupNames' = DupNames(files, folder)
    /\ IF Len(dupNames') > 0
       THEN /\ duplicateResolver' = "first"
            /\ duplicateModal' = [open |-> TRUE, count |-> Len(dupNames'),
                                  sample |-> Sample(dupNames')]
            /\ pc' = "prompt"
            /\ UNCHANGED runVars
       ELSE StartRun(files) /\ UNCHANGED <<duplicateModal, duplicateResolver>>
    /\ UNCHANGED <<envVars, files, alerts, deleteIds, delCursor, replace, deleteLog>>

\* The catch of the duplicate check swallows the error: the handler goes on
\* to the upload.
AfterDupFailureRethrow(fs) == pc' = "rejected" /\ UNCHANGED runVars

AfterDupFailure(fs) == StartRun(fs)

\* fetchAssets throws: the catch alerts and the upload goes on.
QueryFail ==
    /\ pc = "query"
    /\ alerts' = Append(alerts, Alert("load assets failed", "upload notice"))
    /\ AfterDupFailure(files)
    /\ UNCHANGED <<envVars, files, dupVars>>

\* if (replace)
ReplaceBranchAlways(answer) == TRUE

ReplaceBranch(answer) == answer = "true"

\* A button of the modal, the ref holding the resolve of this call:
\* duplicateResolver.current(answer), the modal closes, the ref is cleared and
\* the handler resumes; on replace deleteIds is built and the first
\* deleteAsset issued.
DuplicateAnswer(answer) ==
    /\ pc = "prompt"
    /\ duplicateModal.open
    /\ duplicateResolver = "first"
    /\ duplicateModal' = [duplicateModal EXCEPT !.open = FALSE]
    /\ duplicateResolver' = "null"
    /\ replace' = answer
    /\ IF ReplaceBranch(answer)
       THEN /\ deleteIds' = DeleteIds(dupNames, folder)
            /\ delCursor' = 1
            /\ deleteLog' = Append(deleteLog, DeleteRequest(deleteIds'[1]))
            /\ pc' = "deleting"
            /\ UNCHANGED runVars
       ELSE /\ StartRun(files)
            /\ UNCHANGED <<deleteIds, delCursor, deleteLog>>
    /\ UNCHANGED <<envVars, files, alerts, dupNames>>

\* The modal's keep-both button: duplicateResolver.current(false).
DuplicateKeepBoth == DuplicateAnswer("false")

\* The modal's replace button: duplicateResolver.current(true).
DuplicateReplace == DuplicateAnswer("true")

\* deleteAsset(id) resolves: the next id is deleted, or loadMeta() is called.
DeleteOk ==
    /\ pc = "deleting"
    /\ IF delCursor < Len(deleteIds)
       THEN /\ delCursor' = delCursor + 1
            /\ deleteLog' = Append(Answered(deleteLog, "ok"),
                                   DeleteRequest(deleteIds[delCursor + 1]))
            /\ pc' = "deleting"
       ELSE /\ pc' = "dupMeta"
            /\ deleteLog' = Answered(deleteLog, "ok")
            /\ UNCHANGED delCursor
    /\ UNCHANGED <<envVars, files, alerts, dupNames, deleteIds, duplicateModal,
                   duplicateResolver, replace, runVars>>

\* deleteAsset(id) throws: the catch alerts, the other ids are left alone.
DeleteFail ==
    /\ pc = "deleting"
    /\ deleteLog' = Answered(deleteLog, "failed")
    /\ alerts' = Append(alerts, Alert("delete failed", "upload notice"))
    /\ AfterDupFailure(files)
    /\ UNCHANGED <<envVars, files, dupNames, deleteIds, delCursor, duplicateModal,
                   duplicateResolver, replace>>

\* The loadMeta() of the replace branch resolves.
DupMetaOk ==
    /\ pc = "dupMeta"
    /\ StartRun(files)
    /\ UNCHANGED <<envVars, files, alerts, dupVars>>

\* The loadMeta() of the replace branch throws.
DupMetaFail ==
    /\ pc = "dupMeta"
    /\ alerts' = Append(alerts, Alert("load metadata failed", "upload notice"))
    /\ AfterDupFailure(files)
    /\ UNCHANGED <<envVars, files, dupVars>>

(***************************************************************************)
(* The transfers of a run.                                                 *)
(***************************************************************************)
ErrorEntry(file, message) == [name |-> file.name, message |-> message]

\* uploadAssetWithProgress calls onError(error) and then rejects with the
\* same error, which the catch of uploadOne records again.
RejectedErrors(file) ==
    <<ErrorEntry(file, "upload failed")>> \o <<ErrorEntry(file, "upload failed")>>

\* Naive summation: the cumulative count itself is added.
DeltaCumulative(loaded, last) == loaded

\* const delta = event.loaded - lastLoaded
Delta(loaded, last) == loaded - last

\* xhr.upload.onprogress with event.loaded = loaded.
Progress(f) ==
    /\ status[f] = "inflight"
    /\ \E loaded \in (lastLoaded[f] + 1)..BodyLength(files[f]) :
        IF lengthComputable(files[f])
        THEN /\ lastLoaded' = [lastLoaded EXCEPT ![f] = loaded]
             /\ uploadedBytes' = uploadedBytes + Delta(loaded, lastLoaded[f])
             /\ uploadProgress' =
                    [uploadProgress EXCEPT
                        !.percent = Percent(uploadedBytes', totalBytes)]
        ELSE UNCHANGED <<lastLoaded, uploadedBytes, uploadProgress>>
    /\ UNCHANGED <<uploading, uploadErrors, totalBytes, cursor, holding, status, attempts>>
    /\ UNCHANGED <<envVars, pc, files, alerts, dupVars>>

\* xhr.onload, status 2xx, a JSON body: the whole body was sent before.
TransferLoadOk(f) ==
    /\ lastLoaded[f] = BodyLength(files[f])
    /\ Settle(f, "ok", <<>>)

\* xhr.onload, status 2xx, JSON.parse throws: reject(err) without onError.
TransferLoadBadJson(f) ==
    /\ lastLoaded[f] = BodyLength(files[f])
    /\ Settle(f, "failed", <<ErrorEntry(files[f], "invalid JSON")>>)

\* xhr.onload with another status.
TransferLoadStatus(f) == Settle(f, "failed", RejectedErrors(files[f]))

\* xhr.onerror.
TransferError(f) == Settle(f, "failed", RejectedErrors(files[f]))

(***************************************************************************)
(* After Promise.all(workers): loadMeta(), loadAssets(), finally.          *)
(***************************************************************************)
\* The finally block; the locals of the call end with it.
Finally(end) ==
    /\ uploading' = FALSE
    /\ uploadProgress' = idleProgress
    /\ pc' = end
    /\ totalBytes' = 0
    /\ uploadedBytes' = 0
    /\ cursor' = 0
    /\ holding' = [w \in 1..concurrency |-> 0]
    /\ status' = <<>>
    /\ lastLoaded' = <<>>
    /\ attempts' = <<>>
    /\ UNCHANGED <<uploadErrors, envVars, files, alerts, dupVars>>

RefreshMetaOk ==
    /\ pc = "refreshMeta"
    /\ pc' = "refreshAssets"
    /\ UNCHANGED <<envVars, files, alerts, dupVars, runVars>>

RefreshMetaFail == pc = "refreshMeta" /\ Finally("rejected")

RefreshAssetsOk == pc = "refreshAssets" /\ Finally("done")

RefreshAssetsFail == pc = "refreshAssets" /\ Finally("rejected")

Next ==
    \/ handleUploadFiles
    \/ handleDropUpload
    \/ DropTraversed
    \/ DropTraversalFail
    \/ QueryOk
    \/ QueryFail
    \/ DuplicateKeepBoth
    \/ DuplicateReplace
    \/ DeleteOk
    \/ DeleteFail
    \/ DupMetaOk
    \/ DupMetaFail
    \/ \E f \in DOMAIN status : Progress(f)
    \/ \E f \in DOMAIN status : TransferLoadOk(f)
    \/ \E f \in DOMAIN status : TransferLoadBadJson(f)
    \/ \E f \in DOMAIN status : TransferLoadStatus(f)
    \/ \E f \in DOMAIN status : TransferError(f)
    \/ RefreshMetaOk
    \/ RefreshMetaFail
    \/ RefreshAssetsOk
    \/ RefreshAssetsFail

Spec == Init /\ [][Next]_vars

\* Every transfer that was started succeeds or fails in the end.
TransferSettles ==
    \E f \in DOMAIN status :
        \/ TransferLoadOk(f)
        \/ TransferLoadBadJson(f)
        \/ TransferLoadStatus(f)
        \/ TransferError(f)

SpecFair == Spec /\ WF_vars(TransferSettles)

\* The duplicate check up to its prompt, on wide batches.
NextPrompt ==
    \/ handleUploadFilesOn(WideBatches)
    \/ QueryOk

SpecPrompt == InitPrompt /\ [][NextPrompt]_vars


(***************************************************************************)
(* A second call of handleUploadFiles, made while the first is under way:  *)
(* a file input or a drop does not wait for the call before it.  Its       *)
(* locals are the fields of second; it shares the App state (uploading,    *)
(* uploadErrors, uploadProgress, duplicateModal) and the ref               *)
(* duplicateResolver with the first.                                       *)
(***************************************************************************)
runLocals == <<totalBytes, uploadedBytes, cursor, holding, status, lastLoaded, attempts>>
firstLocals == <<pc, files, dupNames, deleteIds, delCursor, replace, deleteLog, runLocals>>
backdrop == <<panelVars, folder, facetVars, batchVars, travVars>>

\* The files of the calls: one file, flat or from a dropped directory.
PairBatches == {Batch(1, "ascending", off, nestedAt) : off \in 0..1, nestedAt \in {0, 1}}

\* From setUploading(true) to  await Promise.all(workers)  in the second call.
SecondStartRun(s) ==
    LET fs == s.files
        r0 == [cursor |-> 0,
               holding |-> [w \in 1..concurrency |-> 0],
               status |-> [i \in 1..Len(fs) |-> "unclaimed"],
               attempts |-> [i \in 1..Len(fs) |-> 0],
               uploadProgress |-> [active |-> TRUE, percent |-> 0,
                                   current |-> fs[1].name, index |-> 0,
                                   total |-> Len(fs)]]
        r == SpawnWorkers(1, r0, fs)
    IN  /\ uploading' = TRUE
        /\ uploadErrors' = <<>>
        /\ uploadProgress' = r.uploadProgress
        /\ second' = [s EXCEPT !.uploadedBytes = 0,
                               !.lastLoaded = [i \in 1..Len(fs) |-> 0],
                               !.cursor = r.cursor,
                               !.holding = r.holding,
                               !.status = r.status,
                               !.attempts = r.attempts,
                               !.pc = AfterWorkers(r, "run")]

\* handleUploadFiles(files) is called again, up to its first await.
secondUploadFiles ==
    /\ pc \notin {"idle", "done", "rejected"}
    /\ second.pc = "idle"
    /\ \E fs \in PairBatches :
        LET s == [second EXCEPT !.files = fs] IN
        IF activeFolder = NoFolder
        THEN /\ alerts' = Append(alerts, Alert("select a folder first", "notice"))
             /\ second' = [s EXCEPT !.pc = "done"]
             /\ UNCHANGED <<uploading, uploadErrors, uploadProgress>>
        ELSE IF hasNestedPath(fs)
        THEN SecondStartRun(s) /\ UNCHANGED alerts
        ELSE /\ second' = [s EXCEPT !.pc = "query"]
             /\ UNCHANGED <<alerts, uploading, uploadErrors, uploadProgress>>
    /\ UNCHANGED <<duplicateModal, duplicateResolver, firstLocals, backdrop>>

\* fetchAssets({ folder_id }) answers the second call: its prompt takes the
\* modal and the ref.
SecondQueryOk ==
    /\ second.pc = "query"
    /\ LET names == DupNames(second.files, folder) IN
       IF Len(names) > 0
       THEN /\ duplicateResolver' = "second"
            /\ duplicateModal' = [open |-> TRUE, count |-> Len(names),
                                  sample |-> Sample(names)]
            /\ second' = [second EXCEPT !.pc = "prompt"]
            /\ UNCHANGED <<uploading, uploadErrors, uploadProgress>>
       ELSE /\ SecondStartRun(second)
            /\ UNCHANGED <<duplicateModal, duplicateResolver>>
    /\ UNCHANGED <<alerts, firstLocals, backdrop>>

\* fetchAssets, deleteAsset or loadMeta throws in the duplicate check of the
\* second call: the catch alerts and the upload goes on.
SecondDupFailure(message) ==
    /\ alerts' = Append(alerts, Alert(message, "upload notice"))
    /\ SecondStartRun([second EXCEPT !.deleteIds = <<>>])
    /\ UNCHANGED <<duplicateModal, duplicateResolver, firstLocals, backdrop>>

SecondQueryFail == second.pc = "query" /\ SecondDupFailure("load assets failed")

\* A button of the modal, the ref holding the resolve of the second call.
SecondDuplicateAnswer(answer) ==
    /\ second.pc = "prompt"
    /\ duplicateModal.open
    /\ duplicateResolver = "second"
    /\ duplicateModal' = [duplicateModal EXCEPT !.open = FALSE]
    /\ duplicateResolver' = "null"
    /\ IF ReplaceBranch(answer)
       THEN /\ second' = [second EXCEPT
                             !.deleteIds = DeleteIds(DupNames(second.files, folder), folder),
                             !.pc = "deleting"]
            /\ UNCHANGED <<uploading, uploadErrors, uploadProgress>>
       ELSE SecondStartRun(second)
    /\ UNCHANGED <<alerts, firstLocals, backdrop>>

SecondDuplicateKeepBoth == SecondDuplicateAnswer("false")

SecondDuplicateReplace == SecondDuplicateAnswer("true")

\* deleteAsset(id) resolves in the second call: the next id, or loadMeta().
SecondDeleteOk ==
    /\ second.pc = "deleting"
    /\ second' = [second EXCEPT !.deleteIds = Tail(@),
                                !.pc = IF Len(second.deleteIds) > 1
                                       THEN "deleting" ELSE "dupMeta"]
    /\ UNCHANGED <<alerts, uploading, uploadErrors, uploadProgress, duplicateModal,
                   duplicateResolver, firstLocals, backdrop>>

SecondDeleteFail == second.pc = "deleting" /\ SecondDupFailure("delete failed")

SecondDupMetaOk ==
    /\ second.pc = "dupMeta"
    /\ SecondStartRun(second)
    /\ UNCHANGED <<alerts, duplicateModal, duplicateResolver, firstLocals, backdrop>>

SecondDupMetaFail == second.pc = "dupMeta" /\ SecondDupFailure("load metadata failed")

\* xhr.upload.onprogress of a transfer of the second run.
SecondProgress(f) ==
    /\ second.status[f] = "inflight"
    /\ \E loaded \in (second.lastLoaded[f] + 1)..BodyLength(second.files[f]) :
        IF lengthComputable(second.files[f])
        THEN /\ second' = [second EXCEPT
                              !.lastLoaded[f] = loaded,
                              !.uploadedBytes = @ + Delta(loaded, second.lastLoaded[f])]
             /\ uploadProgress' =
                    [uploadProgress EXCEPT
                        !.percent = Percent(second'.uploadedBytes,
                                            TotalBytes(second.files))]
        ELSE UNCHANGED <<second, uploadProgress>>
    /\ UNCHANGED <<alerts, uploading, uploadErrors, duplicateModal, duplicateResolver,
                   firstLocals, backdrop>>

\* A transfer of the second run settles, and the worker that awaited it takes
\* its next turn.
SecondSettle(f, outcome, errs) ==
    LET r0 == [cursor |-> second.cursor,
               holding |-> second.holding,
               status |-> [second.status EXCEPT ![f] = outcome],
               attempts |-> second.attempts,
               uploadProgress |-> uploadProgress]
        ws == {w \in 1..concurrency : second.holding[w] = f}
        r == IF ws = {} THEN r0
             ELSE ResumeWorker(CHOOSE w \in ws : TRUE, r0, second.files, outcome)
    IN  /\ second.status[f] = "inflight"
        /\ uploadErrors' = uploadErrors \o errs
        /\ uploadProgress' = r.uploadProgress
        /\ second' = [second EXCEPT !.cursor = r.cursor,
                                    !.holding = r.holding,
                                    !.status = r.status,
                                    !.attempts = r.attempts,
                                    !.lastLoaded[f] = 0,
                                    !.pc = AfterWorkers(r, "run")]
        /\ UNCHANGED <<alerts, uploading, duplicateModal, duplicateResolver,
                       firstLocals, backdrop>>

SecondTransferLoadOk(f) ==
    /\ second.lastLoaded[f] = BodyLength(second.files[f])
    /\ SecondSettle(f, "ok", <<>>)

SecondTransferError(f) == SecondSettle(f, "failed", RejectedErrors(second.files[f]))

\* The finally block of the second call.
SecondFinally(end) ==
    /\ uploading' = FALSE
    /\ uploadProgress' = idleProgress
    /\ second' = [idleCall EXCEPT !.pc = end, !.files = second.files]
    /\ UNCHANGED <<alerts, uploadErrors, duplicateModal, duplicateResolver,
                   firstLocals, backdrop>>

SecondRefreshMetaOk ==
    /\ second.pc = "refreshMeta"
    /\ second' = [second EXCEPT !.pc = "refreshAssets"]
    /\ UNCHANGED <<alerts, uploading, uploadErrors, uploadProgress, duplicateModal,
                   duplicateResolver, firstLocals, backdrop>>

SecondRefreshMetaFail == second.pc = "refreshMeta" /\ SecondFinally("rejected")

SecondRefreshAssetsOk == second.pc = "refreshAssets" /\ SecondFinally("done")

SecondRefreshAssetsFail == second.pc = "refreshAssets" /\ SecondFinally("rejected")

InitPair == InitOn({TargetFolder}, {Listing(MaxExisting)}, {<<>>})

NextPair ==
    \/ handleUploadFilesOn(PairBatches)
    \/ QueryOk
    \/ QueryFail
    \/ DuplicateKeepBoth
    \/ DuplicateReplace
    \/ DeleteOk
    \/ DeleteFail
    \/ DupMetaOk
    \/ DupMetaFail
    \/ \E f \in DOMAIN status : Progress(f)
    \/ \E f \in DOMAIN status : TransferLoadOk(f)
    \/ \E f \in DOMAIN status : TransferError(f)
    \/ RefreshMetaOk
    \/ RefreshMetaFail
    \/ RefreshAssetsOk
    \/ RefreshAssetsFail
    \/ secondUploadFiles
    \/ SecondQueryOk
    \/ SecondQueryFail
    \/ SecondDuplicateKeepBoth
    \/ SecondDuplicateReplace
    \/ SecondDeleteOk
    \/ SecondDeleteFail
    \/ SecondDupMetaOk
    \/ SecondDupMetaFail
    \/ \E f \in DOMAIN second.status : SecondProgress(f)
    \/ \E f \in DOMAIN second.status : SecondTransferLoadOk(f)
    \/ \E f \in DOMAIN second.status : SecondTransferError(f)
    \/ SecondRefreshMetaOk
    \/ SecondRefreshMetaFail
    \/ SecondRefreshAssetsOk
    \/ SecondRefreshAssetsFail

SpecPair == InitPair /\ [][NextPair]_vars

(***************************************************************************)
(* Colors.  A swatch is the string of an asset's colors list, modelled as  *)
(* its sequence of characters; a group is { r, g, b, count, hex }.         *)
(***************************************************************************)
HexDigits == <<"0", "1", "2", "3", "4", "5", "6", "7", "8", "9",
               "a", "b", "c", "d", "e", "f">>

\* String.prototype.toLowerCase on one character.
LowerChar(ch) ==
    CASE ch = "A" -> "a" [] ch = "B" -> "b" [] ch = "C" -> "c"
      [] ch = "D" -> "d" [] ch = "E" -> "e" [] ch = "F" -> "f"
      [] OTHER -> ch

LowerChars(str) == [i \in 1..Len(str) |-> LowerChar(str[i])]

IsHexChar(ch) == \E v \in 1..16 : HexDigits[v] = LowerChar(ch)

HexVal(ch) == (CHOOSE v \in 1..16 : HexDigits[v] = LowerChar(ch)) - 1

RECURSIVE TrimLeft(_)
TrimLeft(str) ==
    IF Len(str) > 0 /\ Head(str) = " " THEN TrimLeft(Tail(str)) ELSE str

RECURSIVE TrimRight(_)
TrimRight(str) ==
    IF Len(str) > 0 /\ str[Len(str)] = " "
    THEN TrimRight(SubSeq(str, 1, Len(str) - 1))
    ELSE str

\* String.prototype.trim
Trim(str) == TrimRight(TrimLeft(str))

\* replace("#", ""): the first "#" of the string is removed.
RemoveFirstHash(str) ==
    IF \E i \in 1..Len(str) : str[i] = "#"
    THEN LET i == CHOOSE k \in 1..Len(str) :
                      str[k] = "#" /\ \A j \in 1..(k - 1) : str[j] # "#"
         IN  SubSeq(str, 1, i - 1) \o SubSeq(str, i + 1, Len(str))
    ELSE str

\* parseInt(pair, 16) on two characters: <<n>>, or <<>> for NaN.  Leading
\* white space is skipped, a sign and the prefix 0x are taken, and the digits
\* up to the first character that is not one are parsed.
parseInt16(pair) ==
    IF pair[1] = " "
    THEN IF IsHexChar(pair[2]) THEN <<HexVal(pair[2])>> ELSE <<>>
    ELSE IF pair[1] = "-"
    THEN IF IsHexChar(pair[2]) THEN <<0 - HexVal(pair[2])>> ELSE <<>>
    ELSE IF pair[1] = "+"
    THEN IF IsHexChar(pair[2]) THEN <<HexVal(pair[2])>> ELSE <<>>
    ELSE IF pair[1] = "0" /\ pair[2] \in {"x", "X"} THEN <<>>
    ELSE IF ~IsHexChar(pair[1]) THEN <<>>
    ELSE IF ~IsHexChar(pair[2]) THEN <<HexVal(pair[1])>>
    ELSE <<16 * HexVal(pair[1]) + HexVal(pair[2])>>

NoColor == [ok |-> FALSE]

parseHexColor(value) ==
    LET normalized == RemoveFirstHash(Trim(value))
    IN  IF Len(normalized) # 6 THEN NoColor
        ELSE LET r == parseInt16(SubSeq(normalized, 1, 2))
                 g == parseInt16(SubSeq(normalized, 3, 4))
                 b == parseInt16(SubSeq(normalized, 5, 6))
             IN  IF r = <<>> \/ g = <<>> \/ b = <<>> THEN NoColor
                 ELSE [ok |-> TRUE, r |-> r[1], g |-> g[1], b |-> b[1],
                       hex |-> <<"#">> \o LowerChars(normalized)]

\* (a.r - b.r) ** 2 + (a.g - b.g) ** 2 + (a.b - b.b) ** 2
SquaredDistance(a, b) ==
    (a.r - b.r) * (a.r - b.r) + (a.g - b.g) * (a.g - b.g) + (a.b - b.b) * (a.b - b.b)

threshold == 28

\* colorDistance(group, rgb) <= threshold, the square root being monotonic
WithinThreshold(group, rgb) == SquaredDistance(group, rgb) <= threshold * threshold

\* n.toString(16).padStart(2, "0") for a channel; a negative one keeps its
\* sign.
toHex(n) ==
    IF n < -15 THEN <<"-", HexDigits[((0 - n) \div 16) + 1], HexDigits[((0 - n) % 16) + 1]>>
    ELSE IF n < 0 THEN <<"-", HexDigits[(0 - n) + 1]>>
    ELSE IF n < 16 THEN <<"0", HexDigits[n + 1]>>
    ELSE <<HexDigits[(n \div 16) + 1], HexDigits[(n % 16) + 1]>>

\* groups.find: the first group within the threshold (0 when there is none)
FindGroup(groups, rgb) ==
    IF \E i \in 1..Len(groups) : WithinThreshold(groups[i], rgb)
    THEN CHOOSE i \in 1..Len(groups) :
            /\ WithinThreshold(groups[i], rgb)
            /\ \A j \in 1..(i - 1) : ~WithinThreshold(groups[j], rgb)
    ELSE 0

MergeKeepCentroid(found, rgb) == [found EXCEPT !.count = found.count + 1]

MergeHalfway(found, rgb) ==
    LET r == Round(found.r + rgb.r, 2)
        g == Round(found.g + rgb.g, 2)
        b == Round(found.b + rgb.b, 2)
    IN  [r |-> r, g |-> g, b |-> b, count |-> found.count + 1,
         hex |-> <<"#">> \o toHex(r) \o toHex(g) \o toHex(b)]

\* found.count += 1 and the running means
MergeInto(found, rgb) ==
    LET count == found.count + 1
        r == Round(found.r * (count - 1) + rgb.r, count)
        g == Round(found.g * (count - 1) + rgb.g, count)
        b == Round(found.b * (count - 1) + rgb.b, count)
    IN  [r |-> r, g |-> g, b |-> b, count |-> count,
         hex |-> <<"#">> \o toHex(r) \o toHex(g) \o toHex(b)]

\* The body of the inner forEach.
AddSwatch(groups, color) ==
    LET rgb == parseHexColor(color)
    IN  IF ~rgb.ok THEN groups
        ELSE LET found == FindGroup(groups, rgb)
             IN  IF found = 0
                 THEN Append(groups, [r |-> rgb.r, g |-> rgb.g, b |-> rgb.b,
                                      count |-> 1, hex |-> rgb.hex])
                 ELSE [groups EXCEPT ![found] = MergeInto(groups[found], rgb)]

RECURSIVE AddSwatches(_, _)
AddSwatches(groups, colors) ==
    IF Len(colors) = 0 THEN groups
    ELSE AddSwatches(AddSwatch(groups, Head(colors)), Tail(colors))

\* data.forEach((asset) => (asset.colors || []).forEach(...))
RECURSIVE AddAssets(_, _)
AddAssets(groups, data) ==
    IF Len(data) = 0 THEN groups
    ELSE AddAssets(AddSwatches(groups, Head(data).colors), Tail(data))

\* The comparator b.count - a.count puts a before b when it is not positive.
RECURSIVE InsertByCount(_, _)
InsertByCount(sorted, group) ==
    IF Len(sorted) = 0 THEN <<group>>
    ELSE IF Head(sorted).count >= group.count
    THEN <<Head(sorted)>> \o InsertByCount(Tail(sorted), group)
    ELSE <<group>> \o sorted

Unsorted(groups) == groups

\* Array.prototype.sort, which is stable.
RECURSIVE SortByCount(_)
SortByCount(groups) ==
    IF Len(groups) = 0 THEN <<>>
    ELSE InsertByCount(SortByCount(SubSeq(groups, 1, Len(groups) - 1)),
                       groups[Len(groups)])

buildColorGroups(data) == SortByCount(AddAssets(<<>>, data))

(***************************************************************************)
(* The library of the backend, and GET /assets with query parameters.      *)
(***************************************************************************)
Black == <<"#", "0", "0", "0", "0", "0", "0">>
NearBlack == <<"#", "0", "2", "0", "2", "0", "2">>
Red25 == <<"#", "1", "9", "0", "0", "0", "0">>
Red40 == <<"#", "2", "8", "0", "0", "0", "0">>
White == <<"#", "F", "F", "F", "F", "F", "F">>
WhiteLower == <<"#", "f", "f", "f", "f", "f", "f">>
Short == <<"#", "1", "2">>
NoDigit == <<"#", "g", "0", "0", "0", "0", "0">>
HalfDigit == <<"#", "1", "g", "0", "0", "0", "0">>
Negative == <<"#", "-", "1", "0", "0", "0", "0">>

Library ==
    <<[id |-> 1, format |-> "PNG", colors |-> <<Black>>],
      [id |-> 2, format |-> " jpg ", colors |-> <<White>>]>>

Palette == <<Black, Red40, Red25, NearBlack, White, Short, NoDigit, HalfDigit, Negative>>

RECURSIVE SwatchLists(_)
SwatchLists(n) ==
    IF n = 0 THEN {<<>>}
    ELSE LET shorter == SwatchLists(n - 1)
         IN  shorter \cup {Append(l, Palette[i]) : l \in shorter, i \in 1..Len(Palette)}

\* The swatches of a list as the colors of one asset, or of two.
AsAssets(list) ==
    IF Len(list) < 2
    THEN <<[id |-> 1, format |-> "", colors |-> list]>>
    ELSE <<[id |-> 1, format |-> "", colors |-> <<Head(list)>>],
           [id |-> 2, format |-> "", colors |-> Tail(list)]>>

ClusterLibraries == {AsAssets(list) : list \in SwatchLists(MaxSwatches)}

\* The format strings of the assets of a library: mixed case, padded, empty,
\* blank.
FormatPalette == <<"PNG", "Png", " jpg ", "GIF", "", " ">>

FormatLists ==
    UNION {[1..n -> {FormatPalette[i] : i \in 1..Len(FormatPalette)}] :
              n \in 0..MaxFormats}

FormatLibraries ==
    {[i \in 1..Len(list) |-> [id |-> i, format |-> list[i], colors |-> <<>>]] :
        list \in FormatLists}

\* String.prototype.trim on the format strings of the model.
TrimFormat(str) ==
    CASE str = " jpg " -> "jpg"
      [] str = " " -> ""
      [] OTHER -> str

Elements(seq) == {seq[i] : i \in 1..Len(seq)}

\* The server's filter: an asset is listed when it matches every parameter
\* that is given.
Matches(asset, params) ==
    /\ params.format # <<>> =>
          toLowerCase(TrimFormat(asset.format)) \in Elements(params.format)
    /\ params.color # <<>> =>
          \E i \in 1..Len(asset.colors) :
              LowerChars(asset.colors[i]) \in Elements(params.color)

Query(lib, params) == SelectSeq(lib, LAMBDA asset : Matches(asset, params))

(***************************************************************************)
(* The facets: the effects on [filters, assets].                           *)
(***************************************************************************)
\* The order of localeCompare on the formats of the model.
FormatOrder == <<"gif", "jpg", "png">>

\* a.localeCompare(b) <= 0
LocaleNotAfter(a, b) ==
    \E i, j \in 1..Len(FormatOrder) :
        FormatOrder[i] = a /\ FormatOrder[j] = b /\ i <= j

\* A map that never reports a key as present.
MapHasNever(keys, key) == FALSE

\* map.has(key), the keys being kept in insertion order
MapHas(keys, key) == key \in Elements(keys)

\* The body of data.forEach in buildFormats.
AddFormat(keys, asset) ==
    LET value == TrimFormat(asset.format)
        key == toLowerCase(value)
    IN  IF value = "" THEN keys
        ELSE IF MapHas(keys, key) THEN keys
        ELSE Append(keys, key)

RECURSIVE CollectFormats(_, _)
CollectFormats(keys, data) ==
    IF Len(data) = 0 THEN keys
    ELSE CollectFormats(AddFormat(keys, Head(data)), Tail(data))

RECURSIVE InsertByLocale(_, _)
InsertByLocale(sorted, key) ==
    IF Len(sorted) = 0 THEN <<key>>
    ELSE IF LocaleNotAfter(Head(sorted), key)
    THEN <<Head(sorted)>> \o InsertByLocale(Tail(sorted), key)
    ELSE <<key>> \o sorted

\* Array.from(map.values()).sort((a, b) => a.localeCompare(b))
RECURSIVE SortByLocale(_)
SortByLocale(keys) ==
    IF Len(keys) = 0 THEN <<>>
    ELSE InsertByLocale(SortByLocale(SubSeq(keys, 1, Len(keys) - 1)), keys[Len(keys)])

buildFormats(data) == SortByLocale(CollectFormats(<<>>, data))

\* The options of a facet for a list of assets.
BuildFacet(dim, data) ==
    IF dim = "format" THEN buildFormats(data) ELSE buildColorGroups(data)

\* nextFilters = { ...filters }; delete nextFilters[dim]
KeepOwnFilter(f, dim) == f

WithoutOwnFilter(f, dim) == [f EXCEPT ![dim] = <<>>]

\* if (!filters[dim])
NeverFromVisible(f, dim) == FALSE

FromVisible(f, dim) == f[dim] = <<>>

\* The test of the flag active before a result is committed.
IgnoreActive(req) == TRUE

IsActive(req) == req.active

\* The cleanup of an effect: active = false.
Cleanup(reqs) == {[r EXCEPT !.active = FALSE] : r \in reqs}

\* A computation started for the filters f; current records that filters
\* and assets are still the ones it started with.
FacetRequest(dim, f) ==
    [dim |-> dim, params |-> WithoutOwnFilter(f, dim), active |-> TRUE,
     current |-> TRUE]

Outdated(reqs) == {[r EXCEPT !.current = FALSE] : r \in reqs}

\* The effects of loadFormats and loadColors run for the filters f and the
\* assets data: the earlier runs are cleaned up, a facet without a filter
\* of its own is computed from data, the other is queried again.
RunFacetEffects(f, data) ==
    /\ facetRequests' =
          Outdated(Cleanup(facetRequests))
            \cup {FacetRequest(dim, f) : dim \in {d \in {"format", "color"} : ~FromVisible(f, d)}}
    /\ formatOptions' =
          IF FromVisible(f, "format") THEN buildFormats(data) ELSE formatOptions
    /\ colorGroups' =
          IF FromVisible(f, "color") THEN buildColorGroups(data) ELSE colorGroups
    /\ committedCurrent' =
          [dim \in {"format", "color"} |->
              IF FromVisible(f, dim) THEN TRUE ELSE committedCurrent[dim]]

Toggle(selection, value) ==
    IF value \in Elements(selection)
    THEN SelectSeq(selection, LAMBDA v : v # value)
    ELSE Append(selection, value)

\* setFilters(next): the effect on [filters] calls loadAssets(), and the
\* facet effects run again.
ApplyFilters(next) ==
    /\ filters' = next
    /\ assetRequests' = assetRequests \cup {[params |-> next, by |-> "effect"]}
    /\ RunFacetEffects(next, assets)
    /\ facetOutcome' = "none"
    /\ UNCHANGED <<library, assets, batchVars, travVars>>

SetFilters(next) ==
    /\ ApplyFilters(next)
    /\ UNCHANGED uploadVars

Pending == Cardinality(assetRequests) + Cardinality(facetRequests)

\* The options the user clicks on, among those shown.
ClickedFormats == {"jpg", "png"}
ClickedColors == {LowerChars(Black)}

\* toggleFormat(format), format being an option shown or selected.
toggleFormat ==
    /\ Pending < MaxPending
    /\ \E format \in (Elements(formatOptions) \cup Elements(selectedFormats))
                        \cap ClickedFormats :
        /\ selectedFormats' = Toggle(selectedFormats, format)
        /\ SetFilters([filters EXCEPT !.format = selectedFormats'])
    /\ UNCHANGED selectedColors

\* toggleColor(color), color being the hex of a group shown or selected.
toggleColor ==
    /\ Pending < MaxPending
    /\ \E color \in ({colorGroups[i].hex : i \in 1..Len(colorGroups)}
                        \cup Elements(selectedColors)) \cap ClickedColors :
        /\ selectedColors' = Toggle(selectedColors, LowerChars(color))
        /\ SetFilters([filters EXCEPT !.color = selectedColors'])
    /\ UNCHANGED selectedFormats

\* The saved filter sets of the smart folders: handleSaveSmart saves
\* { tags } alone, which asks for no format and no color.
SmartQueries == {noFilters}

\* A click on a folder of the list: setActiveFolder(folder) and
\* setFilters({ ...form, tags, folder_id }).
folderClick ==
    /\ Pending < MaxPending
    /\ activeFolder' = TargetFolder
    /\ ApplyFilters([format |-> form.format, color |-> form.color])
    /\ UNCHANGED <<form, selectedFormats, selectedColors>>
    /\ UNCHANGED <<second, folder, pc, files, alerts, dupVars, runVars>>

\* A click on the header of the panel of all assets: setActiveFolder(null) and
\* setFilters({ ...form, tags, folder_id: undefined }).
allClick ==
    /\ Pending < MaxPending
    /\ activeFolder' = NoFolder
    /\ ApplyFilters([format |-> form.format, color |-> form.color])
    /\ UNCHANGED <<form, selectedFormats, selectedColors>>
    /\ UNCHANGED <<second, folder, pc, files, alerts, dupVars, runVars>>

\* handleSmartClick(item): setActiveFolder(null), setForm({ ...emptyForm,
\* ...query }) and setFilters(query).
handleSmartClick ==
    /\ Pending < MaxPending
    /\ \E query \in SmartQueries :
        /\ activeFolder' = NoFolder
        /\ form' = [format |-> query.format, color |-> query.color]
        /\ ApplyFilters(query)
    /\ UNCHANGED <<selectedFormats, selectedColors>>
    /\ UNCHANGED <<second, folder, pc, files, alerts, dupVars, runVars>>

\* loadAssets(): fetchAssets answers, setAssets(data), and the facet effects
\* run again.
AssetsLoaded ==
    \E req \in {r \in assetRequests : r.by = "effect"} :
        /\ assetRequests' = assetRequests \ {req}
        /\ assets' = Query(library, req.params)
        /\ RunFacetEffects(filters, assets')
        /\ facetOutcome' = "none"
        /\ UNCHANGED <<library, filters, selectedFormats, selectedColors, uploadVars,
                       batchVars, travVars>>

\* loadAssets(): fetchAssets throws, and nothing catches it.
AssetsFailed ==
    \E req \in {r \in assetRequests : r.by = "effect"} :
        /\ assetRequests' = assetRequests \ {req}
        /\ facetOutcome' = "none"
        /\ UNCHANGED <<library, assets, filters, selectedFormats, selectedColors,
                       formatOptions, colorGroups, facetRequests, committedCurrent,
                       uploadVars, batchVars, travVars>>

\* A facet's options are set by the computation req.
CommitFacet(req, options) ==
    /\ formatOptions' = IF req.dim = "format" THEN options ELSE formatOptions
    /\ colorGroups' = IF req.dim = "color" THEN options ELSE colorGroups
    /\ committedCurrent' = [committedCurrent EXCEPT ![req.dim] = req.current]

\* loadFormats / loadColors: fetchAssets(nextFilters) answers.
FacetLoaded ==
    \E req \in facetRequests :
        /\ facetRequests' = facetRequests \ {req}
        /\ IF IsActive(req)
           THEN CommitFacet(req, BuildFacet(req.dim, Query(library, req.params)))
           ELSE UNCHANGED <<formatOptions, colorGroups, committedCurrent>>
        /\ facetOutcome' = "loaded"
        /\ UNCHANGED <<library, assets, filters, selectedFormats, selectedColors,
                       assetRequests, uploadVars, batchVars, travVars>>

\* A catch that leaves the options of the facet as they are.
FallbackKeepsOptions(req) ==
    IF req.dim = "format" THEN formatOptions ELSE colorGroups

\* catch (error) { ... setFormatOptions([]) / setColorGroups([]) }
Fallback(req) == <<>>

\* loadFormats / loadColors: fetchAssets(nextFilters) throws, and the catch
\* of the async function ends the call.
FacetFailed ==
    \E req \in facetRequests :
        /\ facetRequests' = facetRequests \ {req}
        /\ IF IsActive(req)
           THEN CommitFacet(req, Fallback(req))
           ELSE UNCHANGED <<formatOptions, colorGroups, committedCurrent>>
        /\ facetOutcome' = "failed"
        /\ UNCHANGED <<library, assets, filters, selectedFormats, selectedColors,
                       assetRequests, uploadVars, batchVars, travVars>>

InitFacets == InitOn({TargetFolder}, {Listing(0)}, {Library})

NextFacets ==
    \/ toggleFormat
    \/ toggleColor
    \/ AssetsLoaded
    \/ AssetsFailed
    \/ FacetLoaded
    \/ FacetFailed

SpecFacets == InitFacets /\ [][NextFacets]_vars

\* The facet toggles together with the clicks of the side panel.
NextPanel ==
    \/ toggleFormat
    \/ toggleColor
    \/ folderClick
    \/ allClick
    \/ handleSmartClick
    \/ AssetsLoaded
    \/ FacetLoaded

SpecPanel == InitFacets /\ [][NextPanel]_vars

\* buildColorGroups on the first asset list of libraries of a few swatches.
InitCluster == InitOn({TargetFolder}, {Listing(0)}, ClusterLibraries)

NextCluster == AssetsLoaded

SpecCluster == InitCluster /\ [][NextCluster]_vars

\* buildFormats on the first asset list of libraries of a few formats.
InitFormats == InitOn({TargetFolder}, {Listing(0)}, FormatLibraries)

NextFormats == AssetsLoaded

SpecFormats == InitFormats /\ [][NextFormats]_vars

(***************************************************************************)
(* Selection and handleBatchDelete.  One call of handleBatchDelete is      *)
(* followed at a time; the detail pane (setSelected) is not part of the    *)
(* state.                                                                   *)
(***************************************************************************)
MaxBatch == 3

\* A library of MaxBatch assets.
BatchLibrary ==
    [i \in 1..MaxBatch |-> [id |-> i, format |-> "PNG", colors |-> <<Black>>]]

AssetIds(data) == {data[i].id : i \in 1..Len(data)}

\* ids.indexOf(id) + 1
IndexOf(list, id) == CHOOSE i \in 1..Len(list) :
                        list[i] = id /\ \A j \in 1..(i - 1) : list[j] # id

\* The backend's DELETE /assets/:id.
Deleted(lib, id) == SelectSeq(lib, LAMBDA a : a.id # id)

\* The call of handleBatchDelete returns or rejects: its locals end with it.
EndOfCall ==
    /\ ids' = <<>>
    /\ delDone' = 0

batchIdle == bpc \in {"idle", "done", "cancelled", "rejected"}

\* A long press on a card: setSelectionMode(true); toggleSelectedId(asset.id).
longPress ==
    /\ deleteOutcome' = "none"
    /\ bpc # "confirm"
    /\ ~selectionMode
    /\ \E id \in AssetIds(assets) :
        /\ selectionMode' = TRUE
        /\ selectedIds' = Toggle(selectedIds, id)
    /\ UNCHANGED <<confirmModal, deleteProgress, bpc, ids, delDone, delPending>>
    /\ UNCHANGED <<facetVars, uploadVars, travVars>>

\* A click on a card in selection mode.
toggleSelectedId ==
    /\ deleteOutcome' = "none"
    /\ bpc # "confirm"
    /\ selectionMode
    /\ \E id \in AssetIds(assets) : selectedIds' = Toggle(selectedIds, id)
    /\ UNCHANGED <<selectionMode, confirmModal, deleteProgress, bpc, ids, delDone,
                   delPending>>
    /\ UNCHANGED <<facetVars, uploadVars, travVars>>

\* handleBatchDelete up to the prompt; it returns at once when nothing is
\* selected.
handleBatchDelete ==
    /\ deleteOutcome' = "none"
    /\ batchIdle
    /\ selectionMode
    /\ selectedIds # <<>>
    /\ confirmModal' = [open |-> TRUE, count |-> Len(selectedIds)]
    /\ bpc' = "confirm"
    /\ ids' = selectedIds
    /\ UNCHANGED <<selectionMode, selectedIds, deleteProgress, delDone, delPending>>
    /\ UNCHANGED <<facetVars, uploadVars, travVars>>

\* The loop without its await: every remaining deleteAsset call is made.
IssueEveryDelete(list, i) == {list[j] : j \in i..Len(list)}

\* await deleteAsset(id): one call, and the loop waits for it.
IssueDelete(list, i) == {list[i]}

\* A rejection caught per id: the loop goes on.
DeleteFailureIsolated == FALSE

\* The loop has no try / catch: a rejection of deleteAsset ends the call.
DeleteFailurePropagates == TRUE

\* handleBatchDelete after k turns of  for (const id of selectedIds): the
\* next turn up to its await or, the ids exhausted, the code after the loop
\* up to  await loadAssets().
LoopTurn(list, k, progress) ==
    IF k < Len(list)
    THEN LET id == list[k + 1]
             currentIndex == IndexOf(list, id)
         IN  /\ deleteProgress' =
                    [progress EXCEPT !.current = ToString(id), !.index = currentIndex,
                                     !.percent = Round(currentIndex * 100, Len(list))]
             /\ delPending' = IssueDelete(list, k + 1)
             /\ bpc' = "deleting"
             /\ UNCHANGED <<selectionMode, selectedIds, assetRequests>>
    ELSE /\ deleteProgress' = progress
         /\ delPending' = {}
         /\ selectedIds' = <<>>
         /\ selectionMode' = FALSE
         /\ assetRequests' = assetRequests \cup {[params |-> filters, by |-> "batch"]}
         /\ bpc' = "loadAssets"

\* The confirm button: resolve(true).
ConfirmOk ==
    /\ deleteOutcome' = "none"
    /\ bpc = "confirm"
    /\ confirmModal' = [confirmModal EXCEPT !.open = FALSE]
    /\ LoopTurn(ids, 0, [active |-> TRUE, percent |-> 0, current |-> "",
                         index |-> 0, total |-> Len(ids)])
    /\ UNCHANGED <<ids, delDone>>
    /\ UNCHANGED <<library, assets, filters, selectedFormats, selectedColors,
                   formatOptions, colorGroups, facetRequests, committedCurrent,
                   facetOutcome>>
    /\ UNCHANGED <<uploadVars, travVars>>

\* The cancel button: resolve(false), and handleBatchDelete returns.
ConfirmCancel ==
    /\ deleteOutcome' = "none"
    /\ bpc = "confirm"
    /\ confirmModal' = [confirmModal EXCEPT !.open = FALSE]
    /\ bpc' = "cancelled"
    /\ EndOfCall
    /\ UNCHANGED <<selectionMode, selectedIds, deleteProgress, delPending>>
    /\ UNCHANGED <<facetVars, uploadVars, travVars>>

\* deleteAsset(id) answers: the asset is gone, and the loop takes its next
\* turn.
BatchDeleteOk ==
    /\ deleteOutcome' = "ok"
    /\ bpc = "deleting"
    /\ \E id \in delPending :
        /\ library' = Deleted(library, id)
        /\ delDone' = delDone + 1
        /\ LoopTurn(ids, delDone + 1, deleteProgress)
    /\ UNCHANGED <<confirmModal, ids>>
    /\ UNCHANGED <<assets, filters, selectedFormats, selectedColors,
                   formatOptions, colorGroups, facetRequests, committedCurrent,
                   facetOutcome>>
    /\ UNCHANGED <<uploadVars, travVars>>

\* deleteAsset(id) throws.
BatchDeleteFail ==
    /\ deleteOutcome' = "failed"
    /\ bpc = "deleting"
    /\ \E id \in delPending :
        IF DeleteFailurePropagates
        THEN /\ bpc' = "rejected"
             /\ delPending' = delPending \ {id}
             /\ EndOfCall
             /\ UNCHANGED <<selectionMode, selectedIds, deleteProgress, assetRequests>>
        ELSE /\ delDone' = delDone + 1
             /\ LoopTurn(ids, delDone + 1, deleteProgress)
             /\ UNCHANGED ids
    /\ UNCHANGED confirmModal
    /\ UNCHANGED <<library, assets, filters, selectedFormats, selectedColors,
                   formatOptions, colorGroups, facetRequests, committedCurrent,
                   facetOutcome>>
    /\ UNCHANGED <<uploadVars, travVars>>

\* await loadAssets() of handleBatchDelete answers: setAssets(data), the
\* facet effects run again, and loadMeta() is called.
BatchAssetsLoaded ==
    /\ deleteOutcome' = "none"
    /\ bpc = "loadAssets"
    /\ \E req \in {r \in assetRequests : r.by = "batch"} :
        /\ assetRequests' = assetRequests \ {req}
        /\ assets' = Query(library, req.params)
        /\ RunFacetEffects(filters, assets')
        /\ facetOutcome' = "none"
    /\ bpc' = "loadMeta"
    /\ UNCHANGED <<library, filters, selectedFormats, selectedColors>>
    /\ UNCHANGED <<selectionMode, selectedIds, confirmModal, deleteProgress, ids,
                   delDone, delPending>>
    /\ UNCHANGED <<uploadVars, travVars>>

\* await loadAssets() throws.
BatchAssetsFailed ==
    /\ deleteOutcome' = "none"
    /\ bpc = "loadAssets"
    /\ \E req \in {r \in assetRequests : r.by = "batch"} :
        assetRequests' = assetRequests \ {req}
    /\ bpc' = "rejected"
    /\ EndOfCall
    /\ UNCHANGED <<library, assets, filters, selectedFormats, selectedColors,
                   formatOptions, colorGroups, facetRequests, committedCurrent,
                   facetOutcome>>
    /\ UNCHANGED <<selectionMode, selectedIds, confirmModal, deleteProgress, delPending>>
    /\ UNCHANGED <<uploadVars, travVars>>

\* await loadMeta() answers, and the progress indicator is reset.
BatchMetaOk ==
    /\ deleteOutcome' = "none"
    /\ bpc = "loadMeta"
    /\ deleteProgress' = idleProgress
    /\ bpc' = "done"
    /\ EndOfCall
    /\ UNCHANGED <<selectionMode, selectedIds, confirmModal, delPending>>
    /\ UNCHANGED <<facetVars, uploadVars, travVars>>

\* await loadMeta() throws.
BatchMetaFail ==
    /\ deleteOutcome' = "none"
    /\ bpc = "loadMeta"
    /\ bpc' = "rejected"
    /\ EndOfCall
    /\ UNCHANGED <<selectionMode, selectedIds, confirmModal, deleteProgress, delPending>>
    /\ UNCHANGED <<facetVars, uploadVars, travVars>>

InitBatchDelete == InitOn({TargetFolder}, {Listing(0)}, {BatchLibrary})

NextBatchDelete ==
    \/ AssetsLoaded
    \/ longPress
    \/ toggleSelectedId
    \/ handleBatchDelete
    \/ ConfirmOk
    \/ ConfirmCancel
    \/ BatchDeleteOk
    \/ BatchDeleteFail
    \/ BatchAssetsLoaded
    \/ BatchAssetsFailed
    \/ BatchMetaOk
    \/ BatchMetaFail

SpecBatchDelete == InitBatchDelete /\ [][NextBatchDelete]_vars

(***************************************************************************)
(* getFilesFromDataTransfer, traverseEntry, readAllEntries.  An entry is a *)
(* record: a file entry says whether entry.file succeeds, a directory      *)
(* entry holds the batches its reader answers with (an empty batch once    *)
(* they are used up) and says whether readEntries succeeds.  A relative    *)
(* path is the sequence of its segments, <<>> when the file has none.      *)
(***************************************************************************)
MaxItems == 2

FileEntry(name, readable) ==
    [isFile |-> TRUE, isDirectory |-> FALSE, name |-> name,
     readable |-> readable, batches |-> <<>>]

DirEntry(name, batches, readable) ==
    [isFile |-> FALSE, isDirectory |-> TRUE, name |-> name,
     readable |-> readable, batches |-> batches]

NoEntry == [isFile |-> FALSE, isDirectory |-> FALSE, name |-> "",
            readable |-> TRUE, batches |-> <<>>]

FileA == FileEntry("a.txt", TRUE)

FileB == FileEntry("b.txt", TRUE)

FileC == FileEntry("c.txt", TRUE)

\* A file whose entry.file reports an error.
FileX == FileEntry("x.txt", FALSE)

DirInner == DirEntry("e", <<<<FileB>>>>, TRUE)

\* A directory listed in two batches, with a directory between its files.
DirNested == DirEntry("d", <<<<FileA, DirInner>>, <<FileC>>>>, TRUE)

\* A reader that answers an empty batch before its last one.
DirGap == DirEntry("g", <<<<FileA>>, <<>>, <<FileB>>>>, TRUE)

DirEmpty == DirEntry("m", <<>>, TRUE)

\* A directory whose readEntries reports an error.
DirUnlistable == DirEntry("u", <<<<FileA>>>>, FALSE)

\* A directory holding an unreadable file between two readable ones.
DirWithUnreadable == DirEntry("w", <<<<FileA, FileX>>, <<FileB>>>>, TRUE)

Entries ==
    {FileA, FileX, DirInner, DirNested, DirGap, DirEmpty, DirUnlistable,
     DirWithUnreadable}

\* DataTransferItem: of a file with an entry, of a file without one
\* (webkitGetAsEntry missing or null), of a string.
EntryItem(entry) ==
    [kind |-> "file", hasEntry |-> TRUE, entry |-> entry, file |-> ""]

PlainItem == [kind |-> "file", hasEntry |-> FALSE, entry |-> NoEntry, file |-> "p.txt"]

StringItem == [kind |-> "string", hasEntry |-> FALSE, entry |-> NoEntry, file |-> ""]

Items == {EntryItem(e) : e \in Entries} \cup {PlainItem, StringItem}

ItemLists == UNION {[1..n -> Items] : n \in 1..MaxItems}

\* The payloads: dataTransfer.files empty and some items, or files given
\* directly, with and without a webkitRelativePath.
Transfers ==
    {[files |-> <<>>, items |-> l] : l \in ItemLists}
      \cup {[files |-> <<[name |-> "a.txt", webkitRelativePath |-> <<>>],
                         [name |-> "b.txt", webkitRelativePath |-> <<"d", "b.txt">>]>>,
             items |-> <<EntryItem(FileA)>>]}

Task(entry, prefix, plain) == [entry |-> entry, prefix |-> prefix, plain |-> plain]

\* The loop over the items: the items that are not files are passed over,
\* an item with an entry is traversed, one without is taken by getAsFile().
RECURSIVE ItemTasks(_)
ItemTasks(items) ==
    IF items = <<>> THEN <<>>
    ELSE LET item == Head(items)
         IN  IF item.kind # "file" THEN ItemTasks(Tail(items))
             ELSE IF item.hasEntry
                  THEN <<Task(item.entry, <<>>, FALSE)>> \o ItemTasks(Tail(items))
                  ELSE IF item.file # ""
                       THEN <<Task(FileEntry(item.file, TRUE), <<>>, TRUE)>>
                                \o ItemTasks(Tail(items))
                       ELSE ItemTasks(Tail(items))

\* if (prefix) file.relativePath = `${prefix}${file.name}`
MaterializedFile(entry, prefix) ==
    [name |-> entry.name,
     relativePath |-> IF prefix # <<>> THEN Append(prefix, entry.name) ELSE <<>>]

\* The code up to its next await: what needs no await is done, and the
\* first entry that waits for entry.file or readEntries stays in front.
RECURSIVE Advance(_, _)
Advance(tasks, out) ==
    IF tasks = <<>> THEN [agenda |-> <<>>, dropped |-> out]
    ELSE LET t == Head(tasks)
         IN  IF t.plain
             THEN Advance(Tail(tasks),
                          Append(out, [name |-> t.entry.name, relativePath |-> <<>>]))
             ELSE IF t.entry.isFile \/ t.entry.isDirectory
                  THEN [agenda |-> tasks, dropped |-> out]
                  ELSE Advance(Tail(tasks), out)

\* The children handed the name of their directory alone.
ChildPrefixOwnName(prefix, entry) == <<entry.name>>

\* `${prefix}${entry.name}/`
ChildPrefix(prefix, entry) == Append(prefix, entry.name)

\* for (const child of entries) await traverseEntry(child, files, ...)
ChildTasks(children, prefix) ==
    [i \in 1..Len(children) |-> Task(children[i], prefix, FALSE)]

\* The loop left after its first batch.
ReadOnce(batch) == FALSE

\* if (!batch.length) break
KeepReading(batch) == Len(batch) # 0

\* directFiles.map(...): relativePath is set from a webkitRelativePath.
DirectFiles(fs) ==
    [i \in 1..Len(fs) |->
        [name |-> fs[i].name, relativePath |-> fs[i].webkitRelativePath]]

Traversal(a) ==
    /\ agenda' = a.agenda
    /\ dropped' = a.dropped
    /\ tpc' = IF a.agenda = <<>> THEN "resolved" ELSE "traversing"

\* getFilesFromDataTransfer(dataTransfer), up to its first await or its
\* return.
getFilesFromDataTransfer ==
    /\ tpc = "idle"
    /\ IF Len(dataTransfer.files) # 0
       THEN /\ dropped' = DirectFiles(dataTransfer.files)
            /\ tpc' = "resolved"
            /\ UNCHANGED agenda
       ELSE Traversal(Advance(ItemTasks(dataTransfer.items), <<>>))
    /\ UNCHANGED <<dataTransfer, readerPos, readerEntries>>
    /\ UNCHANGED <<facetVars, batchVars, uploadVars>>

\* entry.file(resolve, reject) calls resolve: the file is pushed.
FileMaterialized ==
    /\ tpc = "traversing"
    /\ Head(agenda).entry.isFile
    /\ Head(agenda).entry.readable
    /\ Traversal(Advance(Tail(agenda),
                         Append(dropped, MaterializedFile(Head(agenda).entry,
                                                          Head(agenda).prefix))))
    /\ UNCHANGED <<dataTransfer, readerPos, readerEntries>>
    /\ UNCHANGED <<facetVars, batchVars, uploadVars>>

\* entry.file(resolve, reject) calls reject: nothing catches the rejection,
\* getFilesFromDataTransfer rejects and its files are lost.
FileRejected ==
    /\ tpc = "traversing"
    /\ Head(agenda).entry.isFile
    /\ ~Head(agenda).entry.readable
    /\ tpc' = "rejected"
    /\ agenda' = <<>>
    /\ dropped' = <<>>
    /\ UNCHANGED <<dataTransfer, readerPos, readerEntries>>
    /\ UNCHANGED <<facetVars, batchVars, uploadVars>>

\* reader.readEntries(resolve) answers with its next batch.
EntriesRead ==
    /\ tpc = "traversing"
    /\ Head(agenda).entry.isDirectory
    /\ Head(agenda).entry.readable
    /\ LET dir == Head(agenda).entry
           batch == IF readerPos < Len(dir.batches)
                    THEN dir.batches[readerPos + 1] ELSE <<>>
       IN  IF KeepReading(batch)
           THEN /\ readerEntries' = readerEntries \o batch
                /\ readerPos' = readerPos + 1
                /\ UNCHANGED <<agenda, dropped, tpc>>
           ELSE /\ readerEntries' = <<>>
                /\ readerPos' = 0
                /\ Traversal(Advance(
                      ChildTasks(readerEntries, ChildPrefix(Head(agenda).prefix, dir))
                        \o Tail(agenda),
                      dropped))
    /\ UNCHANGED dataTransfer
    /\ UNCHANGED <<facetVars, batchVars, uploadVars>>

\* reader.readEntries(resolve) fails: no error callback was given, so the
\* promise of readAllEntries never settles.
EntriesUnreadable ==
    /\ tpc = "traversing"
    /\ Head(agenda).entry.isDirectory
    /\ ~Head(agenda).entry.readable
    /\ tpc' = "hung"
    /\ UNCHANGED <<dataTransfer, agenda, readerPos, readerEntries, dropped>>
    /\ UNCHANGED <<facetVars, batchVars, uploadVars>>

InitTraverse ==
    /\ InitUploadOn({TargetFolder}, {Listing(0)})
    /\ InitFacetsOn({<<>>})
    /\ InitBatch
    /\ InitTraverseOn(Transfers)

NextTraverse ==
    \/ getFilesFromDataTransfer
    \/ FileMaterialized
    \/ FileRejected
    \/ EntriesRead
    \/ EntriesUnreadable

SpecTraverse == InitTraverse /\ [][NextTraverse]_vars

(***************************************************************************)
(* Properties of the upload run.                                           *)
(***************************************************************************)
InFlight == {f \in DOMAIN status : status[f] = "inflight"}

Failed == {f \in DOMAIN status : status[f] = "failed"}

\* Promise.all(workers) has resolved and the finally block has not run yet.
RunSettled == pc \in {"refreshMeta", "refreshAssets"}

\* File f goes from in flight to failed in this step.
FailsNow(f) == status[f] = "inflight" /\ status'[f] = "failed"

\* C1: in every state of an upload run at most 3 files have a transfer that
\* has started and not yet settled, whatever the batch size and the order in
\* which the transfers settle.
C1_InFlightAtMostThree == Cardinality(InFlight) <= 3

\* C1 witness: a batch of more files than workers, its last file claimed
\* after an earlier transfer settled, and three transfers in flight.
C1_Witness ==
    /\ Len(files) > 3
    /\ cursor = Len(files)
    /\ Cardinality(InFlight) = 3

\* C2: every file of the batch is attempted exactly once.  uploadOne is
\* called at most once per file, the files claimed are exactly those below
\* the cursor, a file in flight is awaited by exactly one worker, and once
\* the run has settled every file has been attempted once.
C2_EachFileAttemptedOnce ==
    /\ \A f \in DOMAIN attempts :
        /\ attempts[f] <= 1
        /\ attempts[f] = 1 <=> f <= cursor
        /\ attempts[f] = 0 <=> status[f] = "unclaimed"
    /\ \A f \in InFlight :
        Cardinality({w \in 1..concurrency : holding[w] = f}) = 1
    /\ \A w \in 1..concurrency : holding[w] # 0 => holding[w] \in InFlight
    /\ RunSettled =>
        /\ DOMAIN attempts = 1..Len(files)
        /\ \A f \in 1..Len(files) : attempts[f] = 1

\* C2 witness: a settled run of a batch with fewer files than workers.
C2_Witness ==
    /\ RunSettled
    /\ Len(files) = 2
    /\ \A f \in 1..2 : attempts[f] = 1

\* C3 (as claimed): when a run in which every upload succeeded settles,
\* uploadedBytes equals totalBytes, the percentage shown is 100 and no error
\* was recorded.
C3_AllSucceedBytesExact ==
    (pc = "refreshMeta" /\ \A f \in DOMAIN status : status[f] = "ok") =>
        /\ uploadedBytes = totalBytes
        /\ uploadProgress.percent = 100
        /\ uploadErrors = <<>>

\* C4 (as claimed): uploadedBytes never exceeds totalBytes.
C4_UploadedAtMostTotal == uploadedBytes <= totalBytes

\* Every file has reported its whole request body or has failed.
AllFullOrFailed ==
    /\ DOMAIN status # {}
    /\ \A f \in DOMAIN status :
        \/ status[f] \in {"ok", "failed"}
        \/ status[f] = "inflight" /\ lastLoaded[f] = BodyLength(files[f])

\* C5 (as claimed): a failed file counts for its declared size, so once every
\* file has reported full progress or failed, uploadedBytes equals totalBytes.
C5_FailedFileCountsDeclaredSize ==
    (AllFullOrFailed /\ Failed # {}) => uploadedBytes = totalBytes

\* C5 (amended): a failed file counts only for the bytes its progress events
\* reported before it failed: the step in which a transfer fails leaves
\* uploadedBytes as it was.
C5_FailureAddsNothing ==
    [][\A f \in DOMAIN status \cap DOMAIN status' :
          FailsNow(f) => uploadedBytes' = uploadedBytes]_vars

\* C5 witness: a settled run with a failed file whose uploadedBytes stayed
\* below totalBytes.
C5_Witness ==
    /\ pc = "refreshMeta"
    /\ Failed # {}
    /\ uploadedBytes < totalBytes

\* C6: a failed upload does not abort the run.  In the step in which the
\* transfer of f fails, the worker that awaited f claims the next unclaimed
\* file if there is one, no other worker and no other file is affected, and
\* the run either goes on or settles with every file completed or failed.
C6_FailureDoesNotAbort ==
    [][\A f \in DOMAIN status \cap DOMAIN status' :
          FailsNow(f) =>
            /\ cursor < Len(files) =>
                /\ cursor' = cursor + 1
                /\ status'[cursor + 1] = "inflight"
                /\ \E w \in 1..concurrency :
                      holding[w] = f /\ holding'[w] = cursor + 1
            /\ \A g \in DOMAIN status \ {f, cursor + 1} : status'[g] = status[g]
            /\ \A w \in 1..concurrency :
                  holding[w] # f => holding'[w] = holding[w]
            /\ \/ pc' = "run"
               \/ /\ pc' = "refreshMeta"
                  /\ \A g \in DOMAIN status' : status'[g] \in {"ok", "failed"}]_vars

\* C6 witness: the first three files failed, and a later file, claimed by a
\* worker that had hit a failure, was uploaded all the same.
C6_Witness ==
    /\ pc = "refreshMeta"
    /\ Len(files) > 3
    /\ \A f \in 1..3 : status[f] = "failed"
    /\ status[Len(files)] = "ok"

\* C7 (as claimed): when the run settles, uploadErrors holds exactly one
\* entry per failed file.
C7_OneErrorPerFailedFile ==
    pc = "refreshMeta" => Len(uploadErrors) = Cardinality(Failed)

\* C8: the run settles exactly when every file has completed or failed.  It
\* has not settled while a file is unclaimed or in flight, it is no longer
\* running once every file has completed or failed, and, every started
\* transfer succeeding or failing in the end, a running run settles.
C8_SettlesWhenAllDone ==
    /\ [](RunSettled =>
            /\ DOMAIN status = 1..Len(files)
            /\ \A f \in DOMAIN status : status[f] \in {"ok", "failed"})
    /\ [](pc = "run" =>
            \E f \in DOMAIN status : status[f] \in {"unclaimed", "inflight"})
    /\ (pc = "run") ~> (pc = "refreshMeta")

\* C8 witness: a run of a full batch has settled, some file having failed.
C8_Witness ==
    /\ pc = "refreshMeta"
    /\ Len(files) = MaxFiles
    /\ Failed # {}
    /\ status[1] = "ok"

(***************************************************************************)
(* Properties of the duplicate check.                                      *)
(***************************************************************************)
\* Some candidate has a relative path holding a separator.
Nested == \E i \in 1..Len(files) : Len(files[i].relativePath) > 1

\* The ids of the listed records whose name is, up to case, a candidate's.
CollidingRecordIds ==
    {folder[j].id : j \in
        {k \in 1..Len(folder) :
            /\ folder[k].filename # ""
            /\ \E i \in 1..Len(files) :
                  toLowerCase(files[i].name) = toLowerCase(folder[k].filename)}}

\* The run of an accepted upload request has started (or is over).
Uploading ==
    /\ files # <<>>
    /\ activeFolder # NoFolder
    /\ pc \in {"run", "refreshMeta", "refreshAssets", "done", "rejected"}

\* setDuplicateModal({ open: true, count, sample }) was called.
PromptShown == duplicateModal.count > 0

QueryFailed == \E k \in 1..Len(alerts) : alerts[k].message = "load assets failed"

NoCheckWhenNested ==
    Nested =>
        /\ pc \notin {"query", "prompt", "deleting", "dupMeta"}
        /\ ~PromptShown
        /\ deleteLog = <<>>
        /\ activeFolder # NoFolder => alerts = <<>>

NoTransferWhilePrompting ==
    pc \in {"query", "prompt"} => ~uploading /\ DOMAIN status = {}

\* C9 (as claimed): the duplicate check never runs for a batch with a nested
\* path; for a flat batch with a colliding name the prompt is always shown
\* before uploading.
C9_PromptAlwaysShown ==
    /\ NoCheckWhenNested
    /\ NoTransferWhilePrompting
    /\ (~Nested /\ CollidingRecordIds # {} /\ Uploading) => PromptShown

\* C9 (amended): ... for a flat batch with a colliding name the prompt is
\* shown before uploading whenever the query of the target folder succeeds.
C9_PromptShownUnlessQueryFails ==
    /\ NoCheckWhenNested
    /\ NoTransferWhilePrompting
    /\ (~Nested /\ CollidingRecordIds # {} /\ Uploading /\ ~QueryFailed)
          => PromptShown

\* C9 witness: the prompt is open for a flat batch with a colliding name.
C9_Witness ==
    /\ pc = "prompt"
    /\ duplicateModal.open
    /\ ~Nested
    /\ CollidingRecordIds # {}

ReplaceChosen == deleteIds # <<>>

LoggedIds(result) ==
    {deleteLog[k].id : k \in {j \in 1..Len(deleteLog) : deleteLog[j].result = result}}

\* C10 (as claimed): after replace, every colliding record has been deleted
\* by the time the first transfer starts.
C10_ReplaceDeletesAll ==
    (ReplaceChosen /\ Uploading) => CollidingRecordIds \subseteq LoggedIds("ok")

\* C10 (amended): after replace the colliding records are deleted one at a
\* time until all are deleted or one deletion fails; the records after a
\* failed deletion are not requested; no transfer has started while a
\* deletion is pending; and when no deletion failed every colliding record
\* (all records of a name) has been deleted before the first transfer starts.
C10_ReplaceDeletesUntilFailure ==
    /\ LoggedIds("pending") # {} => pc = "deleting" /\ DOMAIN status = {}
    /\ \A k \in 1..Len(deleteLog) :
        /\ deleteLog[k].id \in CollidingRecordIds
        /\ k < Len(deleteLog) => deleteLog[k].result = "ok"
        /\ \A j \in 1..Len(deleteLog) : deleteLog[j].id = deleteLog[k].id => j = k
    /\ (ReplaceChosen /\ Uploading) =>
        /\ LoggedIds("pending") = {}
        /\ LoggedIds("failed") = {} => CollidingRecordIds = LoggedIds("ok")

\* C10 witness: two records share the colliding name, both were deleted, and
\* the transfers have started.
C10_Witness ==
    /\ pc = "run"
    /\ Len(deleteLog) = 2
    /\ LoggedIds("ok") = {1, 2}
    /\ toLowerCase(folder[1].filename) = toLowerCase(folder[2].filename)


\* The cases in which the replace branch is not taken.
NoReplaceCase == Nested \/ CollidingRecordIds = {} \/ replace = "false"

AllAttempted ==
    /\ DOMAIN attempts = 1..Len(files)
    /\ \A f \in DOMAIN attempts : attempts[f] = 1

\* C11: handleUploadFiles deletes records only when the user chose replace.
\* Every delete request follows the answer replace; when the user chose
\* keep-both, or no candidate name collides, or the batch has a nested path,
\* no delete request is issued and the run, once settled, has attempted every
\* candidate.
C11_DeletesOnlyOnReplace ==
    /\ deleteLog # <<>> => replace = "true"
    /\ (files # <<>> /\ NoReplaceCase) =>
        /\ deleteLog = <<>>
        /\ deleteIds = <<>>
        /\ pc \notin {"deleting", "dupMeta"}
    /\ (files # <<>> /\ NoReplaceCase /\ RunSettled) => AllAttempted

\* C11 witness: the user kept both files of a colliding name; nothing was
\* deleted and the candidates were uploaded.
C11_Witness ==
    /\ replace = "false"
    /\ CollidingRecordIds # {}
    /\ pc = "refreshMeta"
    /\ deleteLog = <<>>
    /\ \A f \in DOMAIN status : status[f] = "ok"

\* The lower-cased candidate names found in the folder's index.
CollidingNames ==
    {toLowerCase(files[i].name) : i \in 1..Len(files)}
        \cap ({toLowerCase(folder[j].filename) : j \in 1..Len(folder)} \ {""})

\* The position of the first candidate named n, up to case.
FirstCandidate(n) ==
    CHOOSE i \in 1..Len(files) :
        /\ toLowerCase(files[i].name) = n
        /\ \A j \in 1..(i - 1) : toLowerCase(files[j].name) # n

\* C12: the prompt reports count = the number of distinct case-insensitive
\* candidate names present in the folder's index, and as sample the first 5
\* of those names in candidate order.
C12_PromptCountAndSample ==
    PromptShown =>
        LET sample == duplicateModal.sample
        IN  /\ duplicateModal.count = Cardinality(CollidingNames)
            /\ Len(sample) = Min(5, Cardinality(CollidingNames))
            /\ \A a \in 1..Len(sample) :
                /\ sample[a] \in CollidingNames
                /\ \A b \in 1..Len(sample) :
                      a < b => FirstCandidate(sample[a]) < FirstCandidate(sample[b])
                /\ \A n \in CollidingNames :
                      FirstCandidate(n) < FirstCandidate(sample[a])
                          => \E b \in 1..Len(sample) : sample[b] = n

\* C12 witness: more than 5 names collide, and the sample holds 5 of them.
C12_Witness ==
    /\ pc = "prompt"
    /\ duplicateModal.count > 5
    /\ Len(duplicateModal.sample) = 5

\* The catch of the duplicate check has shown its alert.
DupPhaseFailed == \E k \in 1..Len(alerts) : alerts[k].title = "upload notice"

\* C13: a failure during the duplicate phase never blocks the upload.  The
\* step in which the query, a deletion or the metadata reload fails shows one
\* alert and starts the run on the whole batch; the run, once settled, has
\* attempted every file; a failed deletion is the last delete request.
C13_DupFailureDoesNotBlock ==
    /\ [][(~DupPhaseFailed /\ DupPhaseFailed') =>
            /\ Len(alerts') = Len(alerts) + 1
            /\ pc' = "run"
            /\ uploading'
            /\ DOMAIN status' = 1..Len(files)
            /\ status'[1] = "inflight"
            /\ deleteLog' = deleteLog \/ deleteLog' = Answered(deleteLog, "failed")]_vars
    /\ []((DupPhaseFailed /\ RunSettled) => AllAttempted)
    /\ [](\A k \in 1..Len(deleteLog) :
            deleteLog[k].result = "failed" => k = Len(deleteLog))

\* C13 witness: a deletion failed, and the run of the batch has settled with
\* its files uploaded.
C13_Witness ==
    /\ LoggedIds("failed") # {}
    /\ Len(alerts) = 1
    /\ pc = "refreshMeta"
    /\ \A f \in DOMAIN status : status[f] = "ok"

Dims == {"format", "color"}

Options(dim) == IF dim = "format" THEN formatOptions ELSE colorGroups

\* The re-query req of a facet is answered in this step.
FacetAnswered(req) ==
    /\ facetRequests' = facetRequests \ {req}
    /\ UNCHANGED <<filters, assets, assetRequests>>

\* C15: a facet computation started for one filter / asset state never
\* commits after that state has changed.  The options of each facet were
\* last set by a computation that was the latest one when it committed, and
\* the answer (or the failure) of a re-query whose filters or assets have
\* changed since leaves the options of both facets as they are.
C15_StaleResultsDiscarded ==
    /\ [](\A dim \in Dims : committedCurrent[dim])
    /\ [][\A req \in facetRequests :
            (FacetAnswered(req) /\ ~req.current) =>
                UNCHANGED <<formatOptions, colorGroups>>]_vars

\* C15 witness: a re-query of the formats is still pending although the
\* filters or assets have changed since, next to the latest one.
C15_Witness ==
    \E old, new \in facetRequests :
        /\ old.dim = "format" /\ new.dim = "format"
        /\ ~old.current /\ new.current
        /\ old.params # new.params

\* The assets of the library that match every active filter but dim's own.
MatchingOthers(dim) ==
    SelectSeq(library, LAMBDA asset : Matches(asset, [filters EXCEPT ![dim] = <<>>]))

\* C16: self-exclusion.  When the latest computation of a facet with an
\* active filter commits, the options are those of the assets matching all
\* active filters except the facet's own (or the empty fallback of a failed
\* re-query); so with one format selected the other formats stay listed.
C16_SelfExclusion ==
    [][\A req \in facetRequests :
          (FacetAnswered(req) /\ req.current) =>
              /\ filters[req.dim] # <<>>
              /\ \/ Options(req.dim)' = BuildFacet(req.dim, MatchingOthers(req.dim))
                 \/ Options(req.dim)' = <<>>]_vars

\* C16 witness: png alone is selected and shown, and the format list still
\* offers jpg.
C16_Witness ==
    /\ filters.format = <<"png">>
    /\ Len(assets) = 1
    /\ formatOptions = <<"jpg", "png">>
    /\ facetRequests = {}
    /\ assetRequests = {}

\* C17: a facet without an active filter of its own is derived directly from
\* the visible assets, without a re-query; a filter on the other dimension
\* narrows it through them.
C17_NoFilterUsesVisibleAssets ==
    \A dim \in Dims :
        filters[dim] = <<>> =>
            /\ Options(dim) = BuildFacet(dim, assets)
            /\ \A req \in facetRequests : req.dim = dim => ~req.current

\* C17 witness: no color is selected, the format filter has narrowed the
\* visible assets, and the color groups are those of the visible assets only.
C17_Witness ==
    /\ filters.color = <<>>
    /\ filters.format # <<>>
    /\ assetRequests = {}
    /\ Len(colorGroups) = 1
    /\ Len(buildColorGroups(library)) = 2

(***************************************************************************)
(* Properties of buildColorGroups.                                         *)
(***************************************************************************)
RECURSIVE Swatches(_)
Swatches(data) ==
    IF Len(data) = 0 THEN <<>> ELSE Head(data).colors \o Swatches(Tail(data))

\* The groups after the first k swatches of the library, before the sort.
GroupsAfter(k) == AddSwatches(<<>>, SubSeq(Swatches(library), 1, k))

Nearest(groups, i, rgb) ==
    \A j \in 1..Len(groups) :
        SquaredDistance(groups[i], rgb) <= SquaredDistance(groups[j], rgb)

\* C18 (as claimed): each swatch is merged into the nearest existing group
\* when that group is at distance <= 28, and starts a new group with count 1
\* exactly when every existing group is at distance > 28.
C18_MergesIntoNearest ==
    assets = library =>
        \A k \in 0..(Len(Swatches(library)) - 1) :
            LET rgb == parseHexColor(Swatches(library)[k + 1])
                before == GroupsAfter(k)
                after == GroupsAfter(k + 1)
            IN  rgb.ok =>
                  IF \A i \in 1..Len(before) :
                        SquaredDistance(before[i], rgb) > 28 * 28
                  THEN after = Append(before, [r |-> rgb.r, g |-> rgb.g, b |-> rgb.b,
                                               count |-> 1, hex |-> rgb.hex])
                  ELSE /\ Len(after) = Len(before)
                       /\ \E i \in 1..Len(before) :
                            /\ Nearest(before, i, rgb)
                            /\ after[i].count = before[i].count + 1
                            /\ \A j \in 1..Len(before) : j # i => after[j] = before[j]

\* Round half up of the mean of two channels.
RoundedMean(x, y) == (x + y + 1) \div 2

\* C19: two swatches at distance <= 28 give one group of count 2 whose
\* centroid is the rounded per-channel mean; #000000, #020202, #FFFFFF give
\* the group #010101 of count 2 and a singleton for #ffffff.
C19_TwoCloseSwatchesMerge ==
    assets = library =>
        LET sw == Swatches(library)
        IN  /\ (Len(sw) = 2 /\ parseHexColor(sw[1]).ok /\ parseHexColor(sw[2]).ok
                  /\ SquaredDistance(parseHexColor(sw[1]), parseHexColor(sw[2])) <= 28 * 28)
                =>
                  LET a == parseHexColor(sw[1])
                      b == parseHexColor(sw[2])
                  IN  /\ Len(colorGroups) = 1
                      /\ colorGroups[1].count = 2
                      /\ colorGroups[1].r = RoundedMean(a.r, b.r)
                      /\ colorGroups[1].g = RoundedMean(a.g, b.g)
                      /\ colorGroups[1].b = RoundedMean(a.b, b.b)
            /\ sw = <<Black, NearBlack, White>> =>
                  colorGroups =
                    <<[r |-> 1, g |-> 1, b |-> 1, count |-> 2,
                       hex |-> <<"#", "0", "1", "0", "1", "0", "1">>],
                      [r |-> 255, g |-> 255, b |-> 255, count |-> 1,
                       hex |-> WhiteLower]>>

\* C19 witness: the groups of #000000, #020202, #FFFFFF have been computed.
C19_Witness ==
    /\ assets = library
    /\ Swatches(library) = <<Black, NearBlack, White>>
    /\ Len(colorGroups) = 2

\* C20: the groups returned by buildColorGroups are sorted by count in
\* descending order.
C20_SortedByCountDescending ==
    \A i, j \in 1..Len(colorGroups) :
        i < j => colorGroups[i].count >= colorGroups[j].count

\* C20 witness: the group met first is not the largest, and the largest
\* group comes first in the result.
C20_Witness ==
    /\ assets = library
    /\ Len(colorGroups) = 2
    /\ GroupsAfter(Len(Swatches(library)))[1].count = 1
    /\ colorGroups[1].count = 2

\* The progress callback has reported for the running batch.
Reported == pc \in {"run", "refreshMeta", "refreshAssets"} /\ uploadedBytes > 0

\* C26 (as claimed): the percentage reported after each progress delta is
\* floor(uploadedBytes / totalBytes * 100); stated for the batches that have
\* sent no more than their declared total.
C26_ReportsFloor ==
    (Reported /\ uploadedBytes <= totalBytes) =>
        uploadProgress.percent = (uploadedBytes * 100) \div totalBytes

\* C26 (amended): the percentage reported after each progress delta is the
\* integer nearest to uploadedBytes / totalBytes * 100, never more than 100:
\* below 100 it is within one half of the ratio, and 100 is reported from a
\* ratio of 99.5 on.
C26_ReportsNearestAtMost100 ==
    Reported =>
        LET p == uploadProgress.percent
            x == 200 * uploadedBytes
        IN  /\ p \in 0..100
            /\ p < 100 => (2 * p - 1) * totalBytes <= x /\ x <= (2 * p + 1) * totalBytes
            /\ p = 100 => x >= 199 * totalBytes

\* C26 witness: two bytes sent of a batch of three are reported as 67.
C26_Witness ==
    /\ pc = "run"
    /\ uploadedBytes = 2
    /\ totalBytes = 3
    /\ uploadProgress.percent = 67

\* The sum of fn[1] .. fn[n].
RECURSIVE SumFn(_, _)
SumFn(fn, n) == IF n = 0 THEN 0 ELSE fn[n] + SumFn(fn, n - 1)

\* The last cumulative count file f is known to have reported: the count of
\* its callback while it is in flight, the whole body once it has loaded.
KnownReported ==
    [f \in DOMAIN status |->
        CASE status[f] = "inflight" -> lastLoaded[f]
          [] status[f] = "ok" -> BodyLength(files[f])
          [] OTHER -> 0]

\* The most a failed file can have reported before it failed.
FailedAtMost ==
    [f \in DOMAIN status |->
        IF status[f] = "failed" THEN BodyLength(files[f]) ELSE 0]

\* What the callbacks of the files that stay in flight report in this step.
ReportedNow ==
    [f \in DOMAIN status |->
        IF status[f] = "inflight" /\ status'[f] = "inflight"
        THEN lastLoaded'[f] - lastLoaded[f] ELSE 0]

\* C27: in every state of an upload run uploadedBytes is the sum over the
\* files of the last cumulative byte count each has reported, under every
\* interleaving of the progress events: it starts at that sum, every step of
\* the run adds to it exactly what the files report in that step (nothing when
\* a transfer settles), and it lies between the sum over the files in flight
\* or loaded and that sum plus the bodies of the failed files.
C27_DeltaAccounting ==
    /\ [](pc \in {"run", "refreshMeta", "refreshAssets"} =>
            LET known == SumFn(KnownReported, Len(files))
            IN  /\ known <= uploadedBytes
                /\ uploadedBytes <= known + SumFn(FailedAtMost, Len(files))
                /\ Failed = {} => uploadedBytes = known)
    /\ [][(pc = "run" /\ pc' \in {"run", "refreshMeta"}) =>
            uploadedBytes' = uploadedBytes + SumFn(ReportedNow, Len(files))]_vars

\* C27 witness: two files in flight have both reported, one of them more than
\* once, and a third file has failed after reporting.
C27_Witness ==
    /\ pc = "run"
    /\ \E f, g \in InFlight :
        /\ f # g
        /\ lastLoaded[f] > 1
        /\ lastLoaded[g] > 0
        /\ uploadedBytes > lastLoaded[f] + lastLoaded[g]
    /\ Failed # {}

\* The run is between setUploading(true) and the finally block, before and
\* after this step.
DuringRun ==
    /\ pc \in {"run", "refreshMeta", "refreshAssets"}
    /\ pc' \in {"run", "refreshMeta", "refreshAssets"}

\* C28: each file's progress events arriving in non-decreasing byte order,
\* neither uploadedBytes nor the reported percentage decreases in any step of
\* an upload run, whatever the interleaving across files and whichever files
\* fail.
C28_NeverDecreases ==
    [][DuringRun =>
          /\ uploadedBytes' >= uploadedBytes
          /\ uploadProgress'.percent >= uploadProgress.percent]_vars

\* C28 witness: a file has failed after reporting progress while another
\* file, still in flight, has reported too.
C28_Witness ==
    /\ pc = "run"
    /\ Failed # {}
    /\ \E f \in InFlight :
        /\ lastLoaded[f] > 0
        /\ uploadedBytes > lastLoaded[f]
    /\ uploadProgress.percent > 0

\* This step calls loadMeta() / loadAssets() of the refresh after a run.
IssuesLoadMeta == pc # "refreshMeta" /\ pc' = "refreshMeta"

IssuesLoadAssets == pc # "refreshAssets" /\ pc' = "refreshAssets"

\* C29: the refresh after an upload run is issued only after every file of
\* the batch has completed or failed: loadMeta() is called in a step after
\* which no file is unclaimed or in flight, loadAssets() only once loadMeta()
\* has resolved, and no transfer is in flight while either is pending.  It is
\* issued also when some files failed: the step in which the last file
\* settles calls loadMeta() whatever the outcomes.
C29_RefreshAfterAllSettled ==
    /\ [][IssuesLoadMeta =>
            /\ status' # <<>>
            /\ \A f \in DOMAIN status' : status'[f] \in {"ok", "failed"}]_vars
    /\ [][IssuesLoadAssets =>
            /\ pc = "refreshMeta"
            /\ UNCHANGED status]_vars
    /\ [](RunSettled => InFlight = {})
    /\ [][(/\ pc = "run"
           /\ status' # <<>>
           /\ \A f \in DOMAIN status' : status'[f] \in {"ok", "failed"})
          => IssuesLoadMeta]_vars

\* C29 witness: loadAssets() has been called after a run in which the first
\* file failed and the last one succeeded.
C29_Witness ==
    /\ pc = "refreshAssets"
    /\ Len(files) > 1
    /\ status[1] = "failed"
    /\ status[Len(files)] = "ok"

\* The re-query req of a facet fails in this step.
FacetRejected(req) == FacetAnswered(req) /\ facetOutcome' = "failed"

\* C30: when the re-query of a facet computation fails and the computation is
\* still the latest one, the options of that facet become empty, the other
\* facet keeps its options, and nothing is surfaced or left pending (no alert,
\* the call ends in its catch); when the computation is stale, the failure
\* changes the options of neither facet.
C30_FailureFallsBackToEmpty ==
    [][\A req \in facetRequests :
          FacetRejected(req) =>
            /\ req.current =>
                  /\ Options(req.dim)' = <<>>
                  /\ \A dim \in Dims \ {req.dim} : Options(dim)' = Options(dim)
            /\ ~req.current => UNCHANGED <<formatOptions, colorGroups>>
            /\ UNCHANGED <<alerts, filters, selectedFormats, selectedColors, assets>>]_vars

\* C30 witness: the latest re-query of the formats has just failed while
\* format options were shown, and the options are now empty.
C30_Witness ==
    /\ facetOutcome = "failed"
    /\ filters.format # <<>>
    /\ formatOptions = <<>>
    /\ assets # <<>>
    /\ \A req \in facetRequests : req.dim # "format"

(***************************************************************************)
(* Properties of the batch delete.                                         *)
(***************************************************************************)
\* This step issues a deleteAsset call.
IssuesDelete == delPending' \ delPending # {}

\* C24: a batch delete is strictly sequential.  At most one deleteAsset call
\* is in flight at any time, and it is the one for the id at the progress
\* index; a call is issued only by the confirmation, nothing being in flight,
\* or by the step in which the previous call settles; and the progress index
\* takes the values 1..n one by one, in increasing order, the batch ending
\* its loop at index n.
C24_BatchDeleteSequential ==
    /\ [](/\ Cardinality(delPending) <= 1
          /\ bpc = "deleting" =>
                /\ deleteProgress.index \in 1..Len(ids)
                /\ deleteProgress.index = delDone + 1
                /\ delPending = {ids[deleteProgress.index]})
    /\ [][IssuesDelete =>
            \/ bpc = "confirm" /\ delPending = {} /\ deleteProgress'.index = 1
            \/ /\ bpc = "deleting"
               /\ delPending \cap delPending' = {}
               /\ deleteProgress'.index = deleteProgress.index + 1]_vars
    /\ [][(bpc = "deleting" /\ bpc' = "loadAssets") =>
            deleteProgress.index = Len(ids)]_vars

\* C24 witness: the third deletion of a batch of three, selected in an order
\* other than that of the list, is in flight, the first two being applied.
C24_Witness ==
    /\ bpc = "deleting"
    /\ Len(ids) = 3
    /\ ids[1] > ids[2]
    /\ deleteProgress.index = 3
    /\ delPending = {ids[3]}
    /\ AssetIds(library) = {ids[3]}

\* C25: in a batch delete a failing deletion is not caught.  The step in
\* which a deleteAsset call fails ends the call of handleBatchDelete: no
\* deleteAsset call is left or issued, nothing is restored to the library
\* (the deletions already performed stay applied), and the selection is
\* neither cleared nor the list refreshed; and as long as no new batch is
\* asked for, nothing more is deleted.
C25_DeleteFailureHaltsBatch ==
    /\ [][(bpc = "deleting" /\ deleteOutcome' = "failed")
            => /\ bpc' = "rejected"
               /\ library' = library
               /\ delPending' = {}
               /\ UNCHANGED <<selectedIds, selectionMode, assets, deleteProgress>>]_vars
    /\ [][bpc = "rejected" =>
            /\ library' = library
            /\ delPending' = {}]_vars
    /\ [](bpc = "rejected" => delPending = {})

\* C25 witness: the second deletion of a batch of three has failed; the first
\* id is gone from the library and the other two are still there.
C25_Witness ==
    /\ bpc = "rejected"
    /\ deleteOutcome = "failed"
    /\ deleteProgress.total = 3
    /\ deleteProgress.index = 2
    /\ AssetIds(library) = {selectedIds[2], selectedIds[3]}
    /\ Len(library) = 2

(***************************************************************************)
(* Properties of the traversal of a dropped payload.                       *)
(***************************************************************************)
\* The concatenation of the batches bs, in order.
RECURSIVE Flatten(_)
Flatten(bs) == IF bs = <<>> THEN <<>> ELSE Head(bs) \o Flatten(Tail(bs))

\* How many batches a reader answers before its first empty one.
FirstEmpty(bs) ==
    IF \E k \in 1..Len(bs) : bs[k] = <<>>
    THEN (CHOOSE k \in 1..Len(bs) : bs[k] = <<>> /\ \A j \in 1..(k - 1) : bs[j] # <<>>) - 1
    ELSE Len(bs)

\* The entries of a directory as its reader lists them.
Listed(dir) == Flatten(SubSeq(dir.batches, 1, FirstEmpty(dir.batches)))

\* readAllEntries is reading the directory in front of the agenda.
Reading ==
    /\ tpc = "traversing"
    /\ agenda # <<>>
    /\ Head(agenda).entry.isDirectory

\* readAllEntries returns in this step.
ListingReturns == Reading /\ tpc' # "hung" /\ (agenda' # agenda \/ tpc' = "resolved")

\* C21: readAllEntries keeps reading until the reader answers an empty
\* batch, and returns the concatenation, in order, of the non-empty batches
\* answered before it.  While it reads, its entries are the concatenation of
\* the batches answered so far, none of them empty; after a non-empty batch
\* it reads again; it returns in the step in which the empty batch is
\* answered, and the children then traversed are its entries, in order.
C21_ReadsUntilEmptyBatch ==
    /\ [](Reading =>
            LET bs == Head(agenda).entry.batches
            IN  /\ readerPos <= FirstEmpty(bs)
                /\ readerEntries = Flatten(SubSeq(bs, 1, readerPos)))
    /\ [][(Reading /\ tpc' # "hung") =>
            LET bs == Head(agenda).entry.batches
                n == Len(readerEntries)
            IN  IF readerPos < FirstEmpty(bs)
                THEN /\ readerPos' = readerPos + 1
                     /\ agenda' = agenda
                     /\ tpc' = "traversing"
                ELSE /\ ListingReturns
                     /\ readerEntries = Listed(Head(agenda).entry)
                     /\ n > 0 =>
                          /\ Len(agenda') = n + Len(agenda) - 1
                          /\ [i \in 1..n |-> agenda'[i].entry] = readerEntries]_vars

\* C21 witness: the directory listed in two batches has been read, and its
\* three children are in front of the agenda in the order of the batches.
C21_Witness ==
    /\ tpc = "traversing"
    /\ Len(agenda) = 3
    /\ agenda[1].entry = FileA
    /\ agenda[2].entry = DirInner
    /\ agenda[3].entry = FileC
    /\ readerPos = 0

\* The files below an entry, depth first, each with the path made of the
\* names of its ancestors and its own.
RECURSIVE LeavesOf(_, _)
RECURSIVE LeavesOfAll(_, _)
LeavesOf(entry, ancestors) ==
    IF entry.isFile
    THEN <<[name |-> entry.name,
            relativePath |-> IF ancestors = <<>> THEN <<>>
                             ELSE ancestors \o <<entry.name>>]>>
    ELSE IF entry.isDirectory
         THEN LeavesOfAll(Listed(entry), ancestors \o <<entry.name>>)
         ELSE <<>>

LeavesOfAll(entries, ancestors) ==
    IF entries = <<>> THEN <<>>
    ELSE LeavesOf(Head(entries), ancestors) \o LeavesOfAll(Tail(entries), ancestors)

\* The files an entry-based payload stands for, item after item.
RECURSIVE LeavesOfItems(_)
LeavesOfItems(items) ==
    IF items = <<>> THEN <<>>
    ELSE LET item == Head(items)
             own == IF item.kind # "file" THEN <<>>
                    ELSE IF item.hasEntry THEN LeavesOf(item.entry, <<>>)
                    ELSE <<[name |-> item.file, relativePath |-> <<>>]>>
         IN  own \o LeavesOfItems(Tail(items))

EntryBased == Len(dataTransfer.files) = 0

\* C22: for an entry-based payload the traversal returns the leaf files
\* depth first, siblings in the order the platform lists them; a file inside
\* a directory carries the names of its ancestor directories, outermost
\* first, followed by its own name, as its relative path, and a top-level
\* file carries none.  The files pushed so far are always the first of that
\* list.
C22_DepthFirstWithPaths ==
    EntryBased =>
        LET expected == LeavesOfItems(dataTransfer.items)
        IN  /\ tpc = "resolved" => dropped = expected
            /\ tpc \in {"traversing", "hung"} =>
                  /\ Len(dropped) <= Len(expected)
                  /\ dropped = SubSeq(expected, 1, Len(dropped))

\* C22 witness: a directory d holding a.txt, a directory e with b.txt, and
\* c.txt, dropped with a top-level a.txt, gives d/a.txt, d/e/b.txt, d/c.txt
\* and a.txt without a path.
C22_Witness ==
    /\ tpc = "resolved"
    /\ dataTransfer.items = <<EntryItem(DirNested), EntryItem(FileA)>>
    /\ dropped = <<[name |-> "a.txt", relativePath |-> <<"d", "a.txt">>],
                   [name |-> "b.txt", relativePath |-> <<"d", "e", "b.txt">>],
                   [name |-> "c.txt", relativePath |-> <<"d", "c.txt">>],
                   [name |-> "a.txt", relativePath |-> <<>>]>>

\* The readable files below an entry: what is left of LeavesOf when the
\* unreadable files and the unlistable directories are passed over.
RECURSIVE ReadableOf(_, _)
RECURSIVE ReadableOfAll(_, _)
ReadableOf(entry, ancestors) ==
    IF ~entry.readable THEN <<>>
    ELSE IF entry.isFile THEN LeavesOf(entry, ancestors)
    ELSE IF entry.isDirectory
         THEN ReadableOfAll(Listed(entry), ancestors \o <<entry.name>>)
         ELSE <<>>

ReadableOfAll(entries, ancestors) ==
    IF entries = <<>> THEN <<>>
    ELSE ReadableOf(Head(entries), ancestors) \o ReadableOfAll(Tail(entries), ancestors)

RECURSIVE ReadableOfItems(_)
ReadableOfItems(items) ==
    IF items = <<>> THEN <<>>
    ELSE LET item == Head(items)
             own == IF item.kind # "file" THEN <<>>
                    ELSE IF item.hasEntry THEN ReadableOf(item.entry, <<>>)
                    ELSE <<[name |-> item.file, relativePath |-> <<>>]>>
         IN  own \o ReadableOfItems(Tail(items))

\* C23 (as claimed): the traversal is best effort.  An entry that cannot be
\* read is passed over: getFilesFromDataTransfer neither rejects nor stays
\* pending for ever, and once it has resolved it has returned all the
\* readable files.
C23_UnreadableSkipped ==
    EntryBased =>
        /\ tpc \notin {"rejected", "hung"}
        /\ tpc = "resolved" => dropped = ReadableOfItems(dataTransfer.items)

(***************************************************************************)
(* Properties of buildFormats and buildColorGroups.                        *)
(***************************************************************************)
\* The formats of the assets shown, trimmed and lower-cased, the empty ones
\* left out.
FormatKeys(data) ==
    {toLowerCase(TrimFormat(data[i].format)) : i \in 1..Len(data)} \ {""}

\* C31: the format option list holds the distinct lower-cased, non-empty
\* (after trimming) format strings of the assets it is computed from, each
\* once, in sorted order.
C31_FormatsDistinctSorted ==
    (assets = library /\ filters.format = <<>>) =>
        /\ Elements(formatOptions) = FormatKeys(assets)
        /\ \A i, j \in 1..Len(formatOptions) :
              i < j => /\ formatOptions[i] # formatOptions[j]
                       /\ LocaleNotAfter(formatOptions[i], formatOptions[j])

\* C31 witness: the formats PNG, GIF and Png give the options gif, png.
C31_Witness ==
    /\ assets = library
    /\ Len(assets) = 3
    /\ assets[1].format = "PNG"
    /\ assets[2].format = "GIF"
    /\ assets[3].format = "Png"
    /\ formatOptions = <<"gif", "png">>


Occurrences(seq, x) == Cardinality({i \in 1..Len(seq) : seq[i] = x})

\* C32: each merge adds one to the group's count and sets each channel to
\* round((old * (count - 1) + sample) / count) with the new count, rounding at
\* each update; no other step changes a group, and the groups are never merged
\* with one another: the result holds the groups as the swatches left them.
C32_RunningMeanPerMerge ==
    assets = library =>
        /\ \A k \in 0..(Len(Swatches(library)) - 1) :
              LET rgb == parseHexColor(Swatches(library)[k + 1])
                  before == GroupsAfter(k)
                  after == GroupsAfter(k + 1)
              IN  /\ Len(after) >= Len(before)
                  /\ \A i \in 1..Len(before) :
                        \/ after[i] = before[i]
                        \/ /\ rgb.ok
                           /\ Len(after) = Len(before)
                           /\ \A j \in 1..Len(before) : j # i => after[j] = before[j]
                           /\ after[i].count = before[i].count + 1
                           /\ after[i].r = Round(before[i].r * (after[i].count - 1) + rgb.r,
                                                 after[i].count)
                           /\ after[i].g = Round(before[i].g * (after[i].count - 1) + rgb.g,
                                                 after[i].count)
                           /\ after[i].b = Round(before[i].b * (after[i].count - 1) + rgb.b,
                                                 after[i].count)
        /\ LET last == GroupsAfter(Len(Swatches(library)))
           IN  /\ Len(colorGroups) = Len(last)
               /\ \A i \in 1..Len(last) :
                     Occurrences(colorGroups, last[i]) = Occurrences(last, last[i])

\* C32 witness: #000000 and #280000 start two groups and #190000 is merged
\* into the first, whose red channel becomes round(25 / 2) = 13; the groups
\* are then 27 apart and both are in the result.
C32_Witness ==
    /\ assets = library
    /\ Swatches(library) = <<Black, Red40, Red25>>
    /\ Len(colorGroups) = 2
    /\ colorGroups[1] = [r |-> 13, g |-> 0, b |-> 0, count |-> 2,
                         hex |-> <<"#", "0", "d", "0", "0", "0", "0">>]
    /\ colorGroups[2].r = 40


\* A well-formed swatch: six hexadecimal digits, with or without the "#".
WellFormed(value) ==
    LET normalized == RemoveFirstHash(Trim(value))
    IN  /\ Len(normalized) = 6
        /\ \A i \in 1..6 : IsHexChar(normalized[i])

WellFormedOnly(data) ==
    [i \in 1..Len(data) |->
        [data[i] EXCEPT !.colors = SelectSeq(@, LAMBDA c : WellFormed(c))]]

\* C33 (as claimed): every swatch that is not a well-formed 6-hex-digit value
\* is discarded: the groups are those of the well-formed swatches alone.
C33_MalformedDiscarded ==
    assets = library => colorGroups = buildColorGroups(WellFormedOnly(library))


RECURSIVE SumCounts(_)
SumCounts(groups) ==
    IF Len(groups) = 0 THEN 0 ELSE Head(groups).count + SumCounts(Tail(groups))

\* C39 (as claimed): the counts of the groups add up to the number of
\* well-formed swatches of the input, every group has a count of at least
\* one, and every centroid channel is an integer in 0..255.
C39_ConservesSwatches ==
    assets = library =>
        /\ SumCounts(colorGroups)
             = Len(SelectSeq(Swatches(library), LAMBDA c : WellFormed(c)))
        /\ \A i \in 1..Len(colorGroups) :
              /\ colorGroups[i].count >= 1
              /\ colorGroups[i].r \in 0..255
              /\ colorGroups[i].g \in 0..255
              /\ colorGroups[i].b \in 0..255


(***************************************************************************)
(* Properties of the end of a batch delete.                                *)
(***************************************************************************)
\* C36 (as claimed): whenever a batch delete has ended, all deletions done or
\* one failed and the batch halted, the delete progress indicator is inactive.
C36_ProgressInactiveAfterBatch ==
    bpc \in {"done", "rejected"} => ~deleteProgress.active


(***************************************************************************)
(* Properties of the filters and of the asset list.                        *)
(***************************************************************************)
\* C38 (as claimed): the applied filter and the highlighted selection agree:
\* filters.format is the comma-join of selectedFormats and filters.color that
\* of selectedColors.
C38_FilterMatchesSelection ==
    /\ filters.format = selectedFormats
    /\ filters.color = selectedColors


\* C34 (as claimed): once every asset-list request has settled, the assets
\* shown are the answer to the request made for the latest filters: an answer
\* to an earlier request that comes late does not overwrite a later one.
C34_LatestAssetsWin ==
    assetRequests = {} => assets = Query(library, filters)


(***************************************************************************)
(* Properties of two calls of handleUploadFiles under way at once.         *)
(***************************************************************************)
\* C35 (as claimed): every call waiting on the decision of the duplicate
\* prompt receives it, none being left suspended because the shared resolver
\* was overwritten: while a call waits, the prompt is open to be answered.
C35_NoWaiterStranded ==
    (pc = "prompt" \/ second.pc = "prompt") => duplicateModal.open

TransferInFlight(st) == \E f \in DOMAIN st : st[f] = "inflight"

ErrorsHeld(st, fs) ==
    \A f \in DOMAIN st :
        st[f] = "failed" =>
            \E k \in 1..Len(uploadErrors) : uploadErrors[k].name = fs[f].name

\* C37 (as claimed): with two runs under way, whenever a transfer of some run
\* is in flight uploading is true and uploadProgress is active, and the error
\* list holds the errors recorded by every run that has not settled.
C37_IndicatorTruthful ==
    /\ (TransferInFlight(status) \/ TransferInFlight(second.status)) =>
          uploading /\ uploadProgress.active
    /\ pc \in {"run", "refreshMeta", "refreshAssets"} => ErrorsHeld(status, files)
    /\ second.pc \in {"run", "refreshMeta", "refreshAssets"} =>
          ErrorsHeld(second.status, second.files)


=============================================================================
